---- MODULE Spec2Model ----
(***************************************************************************)
(* Virtual-memory / cache simulator: unified cache (cache.c), TLB (tlb.c), *)
(* linear page table with frame lists (pagetable.c, ll.c) and the address  *)
(* translation of the driver (main.c).                                     *)
(*                                                                         *)
(* Pointers into a fixed array (cache lines of a set, TLB entries of a     *)
(* set, page frames, page-table entries) are modelled as the array index,  *)
(* NULL as -1.                                                             *)
(***************************************************************************)
EXTENDS Integers, Sequences, FiniteSets, TLC

NULL == -1

\* ---------------------------------------------------------------- bounds
\* Number of cache_access calls a run of the cache on its own may perform.
MaxCacheAccesses == 4
\* Number of physical frames of the model (types.h sets 256).
NumFrames == 2
\* Number of pagetable_lookup calls a run of the page table on its own may make.
MaxPtCalls == 5
\* Number of trace entries a run of the simulator processes.
MaxTrace == 4
MaxMlCalls == 4
MaxTlbCalls == 4

\* ------------------------------------------------------ program constants
DIRECT_MAPPED == 1
FULLY_ASSOC == 2
TWO_WAY == 3
FOUR_WAY == 4
CACHE_HIT == 0
CACHE_MISS == 1
CACHE_HIT_L1 == 10
CACHE_HIT_L2 == 11
CACHE_MISS_L1_HIT_L2 == 20
CACHE_MISS_ALL_LEVELS == 30
TLB_HIT == 0
TLB_MISS == 1
PT_HIT == 0
PT_MISS == 1
PAGE_TABLE_ENTRIES == 16384
DEFAULT_BLOCK_SIZE == 4
NUM_PHYSICAL_PAGES == NumFrames

\* ------------------------------------------------------ uint32 arithmetic
Pow2(k) == 2 ^ k
Shr(a, k) == a \div Pow2(k)
\* Left shift of a uint32.  The addresses of the model stay below 2^31 (the
\* largest integer TLC evaluates), and every left shift of the code re-shifts
\* a value that was shifted right by at least as much, so no bit is lost; a
\* product that did leave the range would stop the evaluation with an error.
Shl32(a, k) == a * Pow2(k)

RECURSIVE BitAnd(_, _)
BitAnd(a, b) ==
    IF a = 0 \/ b = 0 THEN 0
    ELSE (IF a % 2 = 1 /\ b % 2 = 1 THEN 1 ELSE 0) + 2 * BitAnd(a \div 2, b \div 2)

RECURSIVE BitOr(_, _)
BitOr(a, b) ==
    IF a = 0 THEN b
    ELSE IF b = 0 THEN a
    ELSE (IF a % 2 = 1 \/ b % 2 = 1 THEN 1 ELSE 0) + 2 * BitOr(a \div 2, b \div 2)

RECURSIVE log2_uint32(_)
log2_uint32(n) == IF n > 1 THEN 1 + log2_uint32(n \div 2) ELSE 0

\* ------------------------------------------------------------- cache.c
init_cache_line == [valid |-> FALSE, dirty |-> FALSE, tag |-> 0, prev |-> NULL, next |-> NULL]

\* init_lru_list that also sets the list ends of a single-way set
init_lru_list_single_too(set) ==
    [set EXCEPT
        !.lru_head = 0,
        !.lru_tail = set.num_ways - 1,
        !.lines = [i \in 0 .. set.num_ways - 1 |->
                      [set.lines[i] EXCEPT
                          !.prev = IF i > 0 THEN i - 1 ELSE @,
                          !.next = IF i < set.num_ways - 1 THEN i + 1 ELSE @]]]

init_lru_list(set) ==
    IF set.num_ways <= 1 THEN set
    ELSE [set EXCEPT
            !.lru_head = 0,
            !.lru_tail = set.num_ways - 1,
            !.lines = [i \in 0 .. set.num_ways - 1 |->
                          [set.lines[i] EXCEPT
                              !.prev = IF i > 0 THEN i - 1 ELSE @,
                              !.next = IF i < set.num_ways - 1 THEN i + 1 ELSE @]]]

\* lru_move_to_head that forgets to move lru_tail when the tail is promoted
lru_move_to_head_stale_tail(set, line) ==
    IF line = NULL \/ set.num_ways <= 1 \/ line = set.lru_head THEN set
    ELSE LET L0 == set.lines
             L1 == IF L0[line].prev # NULL
                     THEN [L0 EXCEPT ![L0[line].prev].next = L0[line].next] ELSE L0
             L2 == IF L1[line].next # NULL
                     THEN [L1 EXCEPT ![L1[line].next].prev = L1[line].prev] ELSE L1
             L3 == [L2 EXCEPT ![line].prev = NULL, ![line].next = set.lru_head]
             L4 == IF set.lru_head # NULL
                     THEN [L3 EXCEPT ![set.lru_head].prev = line] ELSE L3
         IN [set EXCEPT !.lines = L4, !.lru_head = line]

lru_move_to_head(set, line) ==
    IF line = NULL \/ set.num_ways <= 1 \/ line = set.lru_head THEN set
    ELSE LET L0 == set.lines
             L1 == IF L0[line].prev # NULL
                     THEN [L0 EXCEPT ![L0[line].prev].next = L0[line].next] ELSE L0
             L2 == IF L1[line].next # NULL
                     THEN [L1 EXCEPT ![L1[line].next].prev = L1[line].prev] ELSE L1
             tail == IF line = set.lru_tail THEN L2[line].prev ELSE set.lru_tail
             L3 == [L2 EXCEPT ![line].prev = NULL, ![line].next = set.lru_head]
             L4 == IF set.lru_head # NULL
                     THEN [L3 EXCEPT ![set.lru_head].prev = line] ELSE L3
         IN [set EXCEPT !.lines = L4, !.lru_tail = tail, !.lru_head = line]

\* the first index of a scan from 0 upwards that lies in S, or NULL
FirstIn(S) == IF S = {} THEN NULL ELSE CHOOSE i \in S : \A j \in S : i <= j

\* find_line that matches the tag of invalid lines as well
find_line_ignores_valid(set, tag) ==
    FirstIn({i \in 0 .. set.num_ways - 1 : set.lines[i].tag = tag})

find_line(set, tag) ==
    FirstIn({i \in 0 .. set.num_ways - 1 : set.lines[i].valid /\ set.lines[i].tag = tag})

\* find_invalid_line that scans from the last way downwards
find_invalid_line_last(set) ==
    IF \A i \in 0 .. set.num_ways - 1 : set.lines[i].valid THEN NULL
    ELSE CHOOSE i \in 0 .. set.num_ways - 1 :
             /\ ~set.lines[i].valid
             /\ \A j \in 0 .. set.num_ways - 1 : ~set.lines[j].valid => j <= i

find_invalid_line(set) ==
    FirstIn({i \in 0 .. set.num_ways - 1 : ~set.lines[i].valid})

\* select_victim that takes the head of the recency list (the MRU line)
select_victim_mru(set) ==
    LET invalid == find_invalid_line(set)
    IN IF invalid # NULL THEN invalid
       ELSE IF set.num_ways = 1 THEN 0
       ELSE set.lru_head

select_victim(set) ==
    LET invalid == find_invalid_line(set)
    IN IF invalid # NULL THEN invalid
       ELSE IF set.num_ways = 1 THEN 0
       ELSE set.lru_tail

cache_get_index(cache, addr) ==
    IF cache.associativity = FULLY_ASSOC THEN 0
    ELSE BitAnd(Shr(addr, cache.offset_bits), Pow2(cache.index_bits) - 1)

\* cache_get_tag that shifts out the offset bits only
cache_get_tag_keeps_index(cache, addr) == Shr(addr, cache.offset_bits)

cache_get_tag(cache, addr) == Shr(addr, cache.offset_bits + cache.index_bits)

cache_get_offset(cache, addr) == BitAnd(addr, Pow2(cache.offset_bits) - 1)

\* The null cache_t pointer: a cache value without an associativity, so that
\* it can be told from a constructed one, whose associativity is one of the
\* four codes.
NULL_cache == [associativity |-> 0]

\* cache_init once the switch has fixed the geometry: the allocation of the
\* sets and lines and the zeroed statistics
cache_init_alloc(config, num_sets, ways_per_set) ==
    LET offset_bits == log2_uint32(config.block_size)
        index_bits == IF config.associativity = FULLY_ASSOC THEN 0 ELSE log2_uint32(num_sets)
        set0 == [num_ways |-> ways_per_set,
                 lines |-> [j \in 0 .. ways_per_set - 1 |-> init_cache_line],
                 lru_head |-> NULL, lru_tail |-> NULL]
    IN [size |-> config.size, block_size |-> config.block_size,
        associativity |-> config.associativity,
        num_sets |-> num_sets, ways_per_set |-> ways_per_set,
        offset_bits |-> offset_bits, index_bits |-> index_bits,
        tag_bits |-> 32 - offset_bits - index_bits,
        sets |-> [i \in 0 .. num_sets - 1 |-> init_lru_list(set0)],
        accesses |-> 0, hits |-> 0, misses |-> 0,
        reads |-> 0, read_hits |-> 0, writes |-> 0, write_hits |-> 0]

\* cache_init whose switch treats an unknown code as fully associative
cache_init_any_code(config) ==
    CASE config.associativity = DIRECT_MAPPED ->
             cache_init_alloc(config, config.size \div config.block_size, 1)
      [] config.associativity = TWO_WAY ->
             cache_init_alloc(config, config.size \div (config.block_size * 2), 2)
      [] config.associativity = FOUR_WAY ->
             cache_init_alloc(config, config.size \div (config.block_size * 4), 4)
      [] OTHER ->
             cache_init_alloc([config EXCEPT !.associativity = FULLY_ASSOC], 1,
                              config.size \div config.block_size)

cache_init(config) ==
    CASE config.associativity = DIRECT_MAPPED ->
             cache_init_alloc(config, config.size \div config.block_size, 1)
      [] config.associativity = FULLY_ASSOC ->
             cache_init_alloc(config, 1, config.size \div config.block_size)
      [] config.associativity = TWO_WAY ->
             cache_init_alloc(config, config.size \div (config.block_size * 2), 2)
      [] config.associativity = FOUR_WAY ->
             cache_init_alloc(config, config.size \div (config.block_size * 4), 4)
      [] OTHER -> NULL_cache

\* cache_access whose install keeps the victim's dirty bit
cache_access_carry_dirty(cache, addr, is_write) ==
    LET c1 == [cache EXCEPT !.accesses = @ + 1,
                            !.writes = IF is_write THEN @ + 1 ELSE @,
                            !.reads = IF is_write THEN @ ELSE @ + 1]
        index == cache_get_index(cache, addr)
        tag == cache_get_tag(cache, addr)
        set == c1.sets[index]
        line == find_line(set, tag)
    IN IF line # NULL
       THEN LET c2 == [c1 EXCEPT !.hits = @ + 1,
                                 !.write_hits = IF is_write THEN @ + 1 ELSE @,
                                 !.read_hits = IF is_write THEN @ ELSE @ + 1]
                s1 == IF is_write THEN [set EXCEPT !.lines[line].dirty = TRUE] ELSE set
                s2 == lru_move_to_head(s1, line)
            IN [cache |-> [c2 EXCEPT !.sets[index] = s2],
                result |-> CACHE_HIT, index |-> index, way |-> line,
                writebacks |-> << >>]
       ELSE LET c2 == [c1 EXCEPT !.misses = @ + 1]
                victim == select_victim(set)
                old == set.lines[victim]
                victim_addr == BitOr(Shl32(old.tag, cache.offset_bits + cache.index_bits),
                                     Shl32(index, cache.offset_bits))
                wb == IF old.valid /\ old.dirty
                        THEN << [addr |-> victim_addr, line |-> old] >> ELSE << >>
                s1 == [set EXCEPT !.lines[victim].valid = TRUE,
                                  !.lines[victim].dirty = (is_write \/ old.dirty),
                                  !.lines[victim].tag = tag]
                s2 == lru_move_to_head(s1, victim)
            IN [cache |-> [c2 EXCEPT !.sets[index] = s2],
                result |-> CACHE_MISS, index |-> index, way |-> victim,
                writebacks |-> wb]

\* cache_access whose write hit does not mark the line dirty
cache_access_hit_keeps_clean(cache, addr, is_write) ==
    LET c1 == [cache EXCEPT !.accesses = @ + 1,
                            !.writes = IF is_write THEN @ + 1 ELSE @,
                            !.reads = IF is_write THEN @ ELSE @ + 1]
        index == cache_get_index(cache, addr)
        tag == cache_get_tag(cache, addr)
        set == c1.sets[index]
        line == find_line(set, tag)
    IN IF line # NULL
       THEN LET c2 == [c1 EXCEPT !.hits = @ + 1,
                                 !.write_hits = IF is_write THEN @ + 1 ELSE @,
                                 !.read_hits = IF is_write THEN @ ELSE @ + 1]
                s1 == set
                s2 == lru_move_to_head(s1, line)
            IN [cache |-> [c2 EXCEPT !.sets[index] = s2],
                result |-> CACHE_HIT, index |-> index, way |-> line,
                writebacks |-> << >>]
       ELSE LET c2 == [c1 EXCEPT !.misses = @ + 1]
                victim == select_victim(set)
                old == set.lines[victim]
                victim_addr == BitOr(Shl32(old.tag, cache.offset_bits + cache.index_bits),
                                     Shl32(index, cache.offset_bits))
                wb == IF old.valid /\ old.dirty
                        THEN << [addr |-> victim_addr, line |-> old] >> ELSE << >>
                s1 == [set EXCEPT !.lines[victim].valid = TRUE,
                                  !.lines[victim].dirty = is_write,
                                  !.lines[victim].tag = tag]
                s2 == lru_move_to_head(s1, victim)
            IN [cache |-> [c2 EXCEPT !.sets[index] = s2],
                result |-> CACHE_MISS, index |-> index, way |-> victim,
                writebacks |-> wb]

\* cache_access that counts a miss on a write only
cache_access_miss_uncounted(cache, addr, is_write) ==
    LET c1 == [cache EXCEPT !.accesses = @ + 1,
                            !.writes = IF is_write THEN @ + 1 ELSE @,
                            !.reads = IF is_write THEN @ ELSE @ + 1]
        index == cache_get_index(cache, addr)
        tag == cache_get_tag(cache, addr)
        set == c1.sets[index]
        line == find_line(set, tag)
    IN IF line # NULL
       THEN LET c2 == [c1 EXCEPT !.hits = @ + 1,
                                 !.write_hits = IF is_write THEN @ + 1 ELSE @,
                                 !.read_hits = IF is_write THEN @ ELSE @ + 1]
                s1 == IF is_write THEN [set EXCEPT !.lines[line].dirty = TRUE] ELSE set
                s2 == lru_move_to_head(s1, line)
            IN [cache |-> [c2 EXCEPT !.sets[index] = s2],
                result |-> CACHE_HIT, index |-> index, way |-> line,
                writebacks |-> << >>]
       ELSE LET c2 == [c1 EXCEPT !.misses = IF is_write THEN @ + 1 ELSE @]
                victim == select_victim(set)
                old == set.lines[victim]
                victim_addr == BitOr(Shl32(old.tag, cache.offset_bits + cache.index_bits),
                                     Shl32(index, cache.offset_bits))
                wb == IF old.valid /\ old.dirty
                        THEN << [addr |-> victim_addr, line |-> old] >> ELSE << >>
                s1 == [set EXCEPT !.lines[victim].valid = TRUE,
                                  !.lines[victim].dirty = is_write,
                                  !.lines[victim].tag = tag]
                s2 == lru_move_to_head(s1, victim)
            IN [cache |-> [c2 EXCEPT !.sets[index] = s2],
                result |-> CACHE_MISS, index |-> index, way |-> victim,
                writebacks |-> wb]

\* One call of cache_access: the cache afterwards, the returned code, the
\* way that was hit or installed, and the calls of write_block_to_memory
\* (the address passed and the line as it was when the call was made).
cache_access(cache, addr, is_write) ==
    LET c1 == [cache EXCEPT !.accesses = @ + 1,
                            !.writes = IF is_write THEN @ + 1 ELSE @,
                            !.reads = IF is_write THEN @ ELSE @ + 1]
        index == cache_get_index(cache, addr)
        tag == cache_get_tag(cache, addr)
        set == c1.sets[index]
        line == find_line(set, tag)
    IN IF line # NULL
       THEN LET c2 == [c1 EXCEPT !.hits = @ + 1,
                                 !.write_hits = IF is_write THEN @ + 1 ELSE @,
                                 !.read_hits = IF is_write THEN @ ELSE @ + 1]
                s1 == IF is_write THEN [set EXCEPT !.lines[line].dirty = TRUE] ELSE set
                s2 == lru_move_to_head(s1, line)
            IN [cache |-> [c2 EXCEPT !.sets[index] = s2],
                result |-> CACHE_HIT, index |-> index, way |-> line,
                writebacks |-> << >>]
       ELSE LET c2 == [c1 EXCEPT !.misses = @ + 1]
                victim == select_victim(set)
                old == set.lines[victim]
                victim_addr == BitOr(Shl32(old.tag, cache.offset_bits + cache.index_bits),
                                     Shl32(index, cache.offset_bits))
                wb == IF old.valid /\ old.dirty
                        THEN << [addr |-> victim_addr, line |-> old] >> ELSE << >>
                s1 == [set EXCEPT !.lines[victim].valid = TRUE,
                                  !.lines[victim].dirty = is_write,
                                  !.lines[victim].tag = tag]
                s2 == lru_move_to_head(s1, victim)
            IN [cache |-> [c2 EXCEPT !.sets[index] = s2],
                result |-> CACHE_MISS, index |-> index, way |-> victim,
                writebacks |-> wb]

\* ---------------------------------------------------------------- ll.c
\* A list is its head pointer together with the frames' next/prev fields.
ll_insert_head(head, pages, page) ==
    IF page = NULL THEN [head |-> head, pages |-> pages]
    ELSE LET P1 == [pages EXCEPT ![page].next = head, ![page].prev = NULL]
             P2 == IF head # NULL THEN [P1 EXCEPT ![head].prev = page] ELSE P1
         IN [head |-> page, pages |-> P2]

ll_remove_head(head, pages) ==
    IF head = NULL THEN [head |-> head, pages |-> pages, removed |-> NULL]
    ELSE LET removed == head
             h1 == pages[removed].next
             P1 == IF h1 # NULL THEN [pages EXCEPT ![h1].prev = NULL] ELSE pages
             P2 == [P1 EXCEPT ![removed].next = NULL, ![removed].prev = NULL]
         IN [head |-> h1, pages |-> P2, removed |-> removed]

ll_remove_page(head, pages, page) ==
    IF page = NULL \/ head = NULL THEN [head |-> head, pages |-> pages]
    ELSE IF page = head
      THEN LET h1 == pages[page].next
               P1 == IF h1 # NULL THEN [pages EXCEPT ![h1].prev = NULL] ELSE pages
           IN [head |-> h1,
               pages |-> [P1 EXCEPT ![page].next = NULL, ![page].prev = NULL]]
      ELSE LET P1 == IF pages[page].prev # NULL
                       THEN [pages EXCEPT ![pages[page].prev].next = pages[page].next]
                       ELSE pages
               P2 == IF P1[page].next # NULL
                       THEN [P1 EXCEPT ![P1[page].next].prev = P1[page].prev]
                       ELSE P1
           IN [head |-> head,
               pages |-> [P2 EXCEPT ![page].next = NULL, ![page].prev = NULL]]

ll_move_to_head(head, pages, page) ==
    IF page = NULL \/ head = NULL \/ page = head THEN [head |-> head, pages |-> pages]
    ELSE LET P1 == IF pages[page].prev # NULL
                     THEN [pages EXCEPT ![pages[page].prev].next = pages[page].next]
                     ELSE pages
             P2 == IF P1[page].next # NULL
                     THEN [P1 EXCEPT ![P1[page].next].prev = P1[page].prev]
                     ELSE P1
             P3 == [P2 EXCEPT ![page].next = head, ![page].prev = NULL]
             P4 == [P3 EXCEPT ![head].prev = page]
         IN [head |-> page, pages |-> P4]

RECURSIVE ll_get_tail_from(_, _)
ll_get_tail_from(pages, tail) ==
    IF pages[tail].next # NULL THEN ll_get_tail_from(pages, pages[tail].next) ELSE tail

ll_get_tail(head, pages) == IF head = NULL THEN NULL ELSE ll_get_tail_from(pages, head)

\* ----------------------------------------------------------- pagetable.c
\* The virtual page numbers a trace of the model can name.  page_table is
\* kept for these entries only; no other entry is ever read or written.
TraceVpns == {0, 1, 2, 3, 5}

create_page(frame_id) == [frame_id |-> frame_id, pte |-> NULL, next |-> NULL, prev |-> NULL]

\* free-list construction that pushes the frames in ascending order
RECURSIVE init_free_list_ascending(_, _, _)
init_free_list_ascending(i, head, pages) ==
    IF i < 0 THEN [head |-> head, pages |-> pages]
    ELSE LET r == ll_insert_head(head, pages, NUM_PHYSICAL_PAGES - 1 - i)
         IN init_free_list_ascending(i - 1, r.head, r.pages)

RECURSIVE init_free_list(_, _, _)
init_free_list(i, head, pages) ==
    IF i < 0 THEN [head |-> head, pages |-> pages]
    ELSE LET r == ll_insert_head(head, pages, i)
         IN init_free_list(i - 1, r.head, r.pages)

pagetable_init ==
    LET fl == init_free_list(NUM_PHYSICAL_PAGES - 1, NULL,
                             [i \in 0 .. NUM_PHYSICAL_PAGES - 1 |-> create_page(i)])
    IN [page_table |-> [v \in TraceVpns |-> [present |-> FALSE, dirty |-> FALSE, ppn |-> 0]],
        frame_table |-> [i \in 0 .. NUM_PHYSICAL_PAGES - 1 |-> i],
        pages |-> fl.pages,
        free_page_list |-> fl.head,
        used_page_list |-> NULL,
        pt_accesses |-> 0, page_faults |-> 0, page_faults_dirty |-> 0]

\* get_free_page that returns the head of the free list without unlinking it
get_free_page_peek(pt) == [pt |-> pt, page |-> pt.free_page_list]

get_free_page(pt) ==
    IF pt.free_page_list = NULL THEN [pt |-> pt, page |-> NULL]
    ELSE LET r == ll_remove_head(pt.free_page_list, pt.pages)
         IN [pt |-> [pt EXCEPT !.free_page_list = r.head, !.pages = r.pages],
             page |-> r.removed]

\* get_victim_page that leaves the victim's PTE marked present
get_victim_page_keeps_present(pt) ==
    LET victim == ll_get_tail(pt.used_page_list, pt.pages)
    IN IF victim = NULL THEN [pt |-> pt, page |-> NULL]
       ELSE LET r == ll_remove_page(pt.used_page_list, pt.pages, victim)
            IN [pt |-> [pt EXCEPT !.used_page_list = r.head, !.pages = r.pages],
                page |-> victim]

get_victim_page(pt) ==
    LET victim == ll_get_tail(pt.used_page_list, pt.pages)
    IN IF victim = NULL THEN [pt |-> pt, page |-> NULL]
       ELSE LET r == ll_remove_page(pt.used_page_list, pt.pages, victim)
                p1 == [pt EXCEPT !.used_page_list = r.head, !.pages = r.pages]
                p2 == IF p1.pages[victim].pte # NULL
                        THEN [p1 EXCEPT !.page_table[p1.pages[victim].pte].present = FALSE]
                        ELSE p1
            IN [pt |-> p2, page |-> victim]

\* pagetable_lookup that does not move the page to the head of the used list
pagetable_lookup_no_touch(pt, vpn) ==
    LET p1 == [pt EXCEPT !.pt_accesses = @ + 1]
    IN IF p1.page_table[vpn].present
       THEN [pt |-> p1, result |-> PT_HIT,
             ppn |-> p1.page_table[vpn].ppn, dirty |-> p1.page_table[vpn].dirty]
       ELSE [pt |-> p1, result |-> PT_MISS, ppn |-> NULL, dirty |-> FALSE]

pagetable_lookup(pt, vpn) ==
    LET p1 == [pt EXCEPT !.pt_accesses = @ + 1]
    IN IF p1.page_table[vpn].present
       THEN LET page == p1.frame_table[p1.page_table[vpn].ppn]
                r == IF page # NULL /\ page # p1.used_page_list
                       THEN ll_move_to_head(p1.used_page_list, p1.pages, page)
                       ELSE [head |-> p1.used_page_list, pages |-> p1.pages]
            IN [pt |-> [p1 EXCEPT !.used_page_list = r.head, !.pages = r.pages],
                result |-> PT_HIT,
                ppn |-> p1.page_table[vpn].ppn, dirty |-> p1.page_table[vpn].dirty]
       ELSE [pt |-> p1, result |-> PT_MISS, ppn |-> NULL, dirty |-> FALSE]

\* the installation that leaves the frame out of the used list
handle_fault_install_unlinked(pt, vpn, page, victim, disk_writes) ==
    [pt |-> [pt EXCEPT !.page_table[vpn] =
                 [present |-> TRUE, dirty |-> FALSE, ppn |-> pt.pages[page].frame_id],
                       !.pages[page].pte = vpn],
     ppn |-> pt.pages[page].frame_id, victim |-> victim,
     disk_writes |-> disk_writes, fatal |-> FALSE]

\* pagetable_handle_fault once a frame has been obtained: the PTE of vpn is
\* filled in, the frame linked to it and pushed on the used list.
handle_fault_install(pt, vpn, page, victim, disk_writes) ==
    LET p2 == [pt EXCEPT !.page_table[vpn] =
                  [present |-> TRUE, dirty |-> FALSE, ppn |-> pt.pages[page].frame_id],
                         !.pages[page].pte = vpn]
        r == ll_insert_head(p2.used_page_list, p2.pages, page)
    IN [pt |-> [p2 EXCEPT !.used_page_list = r.head, !.pages = r.pages],
        ppn |-> pt.pages[page].frame_id, victim |-> victim,
        disk_writes |-> disk_writes, fatal |-> FALSE]

\* "Write back if dirty" for the victim frame, then the installation
handle_fault_write_back(pt, vpn, page) ==
    LET pte == pt.pages[page].pte
        wasdirty == pte # NULL /\ pt.page_table[pte].dirty
    IN IF wasdirty
       THEN handle_fault_install([pt EXCEPT !.page_faults_dirty = @ + 1,
                                            !.page_table[pte].dirty = FALSE],
                                 vpn, page, pte, 1)
       ELSE handle_fault_install(pt, vpn, page, pte, 0)

\* "No free pages - must evict"
handle_fault_evict(pt, vpn) ==
    LET v == get_victim_page(pt)
    IN IF v.page = NULL
       THEN [pt |-> v.pt, ppn |-> NULL, victim |-> NULL, disk_writes |-> 0, fatal |-> TRUE]
       ELSE handle_fault_write_back(v.pt, vpn, v.page)

\* One call of pagetable_handle_fault: the state afterwards, the returned
\* frame id, the PTE of the evicted page (NULL if none was evicted), the
\* number of write_page_to_disk calls, and whether the FATAL exit was taken.
pagetable_handle_fault(pt, vpn) ==
    LET f == get_free_page([pt EXCEPT !.page_faults = @ + 1])
    IN IF f.page # NULL
       THEN handle_fault_install(f.pt, vpn, f.page, NULL, 0)
       ELSE handle_fault_evict(f.pt, vpn)

\* pagetable_set_dirty without the test of the present bit
pagetable_set_dirty_unconditional(pt, vpn) == [pt EXCEPT !.page_table[vpn].dirty = TRUE]

pagetable_set_dirty(pt, vpn) ==
    IF pt.page_table[vpn].present THEN [pt EXCEPT !.page_table[vpn].dirty = TRUE] ELSE pt

\* ---------------------------------------------------------------- tlb.c
init_tlb_entry == [valid |-> FALSE, dirty |-> FALSE, vpn |-> 0, ppn |-> 0, prev |-> NULL, next |-> NULL]

init_tlb_lru(set) ==
    IF set.num_ways <= 1 THEN set
    ELSE [set EXCEPT
            !.lru_head = 0,
            !.lru_tail = set.num_ways - 1,
            !.entries = [i \in 0 .. set.num_ways - 1 |->
                          [init_tlb_entry EXCEPT
                              !.prev = IF i > 0 THEN i - 1 ELSE set.entries[i].prev,
                              !.next = IF i < set.num_ways - 1 THEN i + 1 ELSE set.entries[i].next]]]

tlb_lru_move_to_head(set, entry) ==
    IF entry = NULL \/ set.num_ways <= 1 \/ entry = set.lru_head THEN set
    ELSE LET E0 == set.entries
             E1 == IF E0[entry].prev # NULL
                     THEN [E0 EXCEPT ![E0[entry].prev].next = E0[entry].next] ELSE E0
             E2 == IF E1[entry].next # NULL
                     THEN [E1 EXCEPT ![E1[entry].next].prev = E1[entry].prev] ELSE E1
             tail == IF entry = set.lru_tail THEN E2[entry].prev ELSE set.lru_tail
             E3 == [E2 EXCEPT ![entry].prev = NULL, ![entry].next = set.lru_head]
             E4 == IF set.lru_head # NULL
                     THEN [E3 EXCEPT ![set.lru_head].prev = entry] ELSE E3
         IN [set EXCEPT !.entries = E4, !.lru_tail = tail, !.lru_head = entry]

find_tlb_entry(set, vpn) ==
    FirstIn({i \in 0 .. set.num_ways - 1 : set.entries[i].valid /\ set.entries[i].vpn = vpn})

find_invalid_tlb_entry(set) ==
    FirstIn({i \in 0 .. set.num_ways - 1 : ~set.entries[i].valid})

select_tlb_victim(set) ==
    LET invalid == find_invalid_tlb_entry(set)
    IN IF invalid # NULL THEN invalid
       ELSE IF set.num_ways = 1 THEN 0
       ELSE set.lru_tail

get_tlb_index(t, vpn) ==
    IF t.associativity = FULLY_ASSOC THEN 0
    ELSE BitAnd(vpn, Pow2(t.index_bits) - 1)

get_tlb_tag(t, vpn) == Shr(vpn, t.index_bits)

\* The null tlb_t pointer, told from a constructed TLB by its associativity.
NULL_tlb == [associativity |-> 0]

\* tlb_init once the switch has fixed the geometry
tlb_init_alloc(config, num_sets, ways_per_set) ==
    LET index_bits == IF config.associativity = FULLY_ASSOC THEN 0 ELSE log2_uint32(num_sets)
        set0 == [num_ways |-> ways_per_set,
                 entries |-> [j \in 0 .. ways_per_set - 1 |-> init_tlb_entry],
                 lru_head |-> NULL, lru_tail |-> NULL]
    IN [num_entries |-> config.num_entries, associativity |-> config.associativity,
        num_sets |-> num_sets, ways_per_set |-> ways_per_set,
        offset_bits |-> 12, index_bits |-> index_bits, tag_bits |-> 20 - index_bits,
        sets |-> [i \in 0 .. num_sets - 1 |-> init_tlb_lru(set0)],
        accesses |-> 0, hits |-> 0, misses |-> 0]

tlb_init(config) ==
    CASE config.associativity = DIRECT_MAPPED -> tlb_init_alloc(config, config.num_entries, 1)
      [] config.associativity = FULLY_ASSOC -> tlb_init_alloc(config, 1, config.num_entries)
      [] config.associativity = TWO_WAY -> tlb_init_alloc(config, config.num_entries \div 2, 2)
      [] config.associativity = FOUR_WAY -> tlb_init_alloc(config, config.num_entries \div 4, 4)
      [] OTHER -> NULL_tlb

\* tlb_lookup that does not count its misses
tlb_lookup_miss_uncounted(t, vpn) ==
    LET t1 == [t EXCEPT !.accesses = @ + 1]
        index == get_tlb_index(t, vpn)
        set == t1.sets[index]
        entry == find_tlb_entry(set, get_tlb_tag(t, vpn))
    IN IF entry # NULL
       THEN [tlb |-> [t1 EXCEPT !.hits = @ + 1,
                                !.sets[index] = tlb_lru_move_to_head(set, entry)],
             result |-> TLB_HIT, ppn |-> set.entries[entry].ppn,
             dirty |-> set.entries[entry].dirty]
       ELSE [tlb |-> t1, result |-> TLB_MISS, ppn |-> NULL, dirty |-> FALSE]

tlb_lookup(t, vpn) ==
    LET t1 == [t EXCEPT !.accesses = @ + 1]
        index == get_tlb_index(t, vpn)
        tag == get_tlb_tag(t, vpn)
        set == t1.sets[index]
        entry == find_tlb_entry(set, tag)
    IN IF entry # NULL
       THEN [tlb |-> [t1 EXCEPT !.hits = @ + 1,
                                !.sets[index] = tlb_lru_move_to_head(set, entry)],
             result |-> TLB_HIT, ppn |-> set.entries[entry].ppn,
             dirty |-> set.entries[entry].dirty]
       ELSE [tlb |-> [t1 EXCEPT !.misses = @ + 1],
             result |-> TLB_MISS, ppn |-> NULL, dirty |-> FALSE]

\* tlb_insert that does not mark the installed entry valid
tlb_insert_not_valid(t, vpn, ppn) ==
    LET index == get_tlb_index(t, vpn)
        tag == get_tlb_tag(t, vpn)
        set == t.sets[index]
        entry == find_tlb_entry(set, tag)
    IN IF entry # NULL
       THEN [t EXCEPT !.sets[index] =
                tlb_lru_move_to_head([set EXCEPT !.entries[entry].ppn = ppn], entry)]
       ELSE LET victim == select_tlb_victim(set)
                s1 == [set EXCEPT !.entries[victim].valid = FALSE,
                                  !.entries[victim].dirty = FALSE,
                                  !.entries[victim].vpn = tag,
                                  !.entries[victim].ppn = ppn]
            IN [t EXCEPT !.sets[index] = tlb_lru_move_to_head(s1, victim)]

\* tlb_insert that installs into a victim without looking for the page first
tlb_insert_always_installs(t, vpn, ppn) ==
    LET index == get_tlb_index(t, vpn)
        set == t.sets[index]
        victim == select_tlb_victim(set)
        s1 == [set EXCEPT !.entries[victim].valid = TRUE,
                          !.entries[victim].dirty = FALSE,
                          !.entries[victim].vpn = get_tlb_tag(t, vpn),
                          !.entries[victim].ppn = ppn]
    IN [t EXCEPT !.sets[index] = tlb_lru_move_to_head(s1, victim)]

tlb_insert(t, vpn, ppn) ==
    LET index == get_tlb_index(t, vpn)
        tag == get_tlb_tag(t, vpn)
        set == t.sets[index]
        entry == find_tlb_entry(set, tag)
    IN IF entry # NULL
       THEN [t EXCEPT !.sets[index] =
                tlb_lru_move_to_head([set EXCEPT !.entries[entry].ppn = ppn], entry)]
       ELSE LET victim == select_tlb_victim(set)
                s1 == [set EXCEPT !.entries[victim].valid = TRUE,
                                  !.entries[victim].dirty = FALSE,
                                  !.entries[victim].vpn = tag,
                                  !.entries[victim].ppn = ppn]
            IN [t EXCEPT !.sets[index] = tlb_lru_move_to_head(s1, victim)]

\* tlb_set_dirty that marks every valid entry of the set
tlb_set_dirty_whole_set(t, vpn) ==
    [t EXCEPT !.sets[get_tlb_index(t, vpn)].entries =
        [i \in DOMAIN @ |-> IF @[i].valid THEN [@[i] EXCEPT !.dirty = TRUE] ELSE @[i]]]

\* tlb_set_dirty that never marks the entry
tlb_set_dirty_skipped(t, vpn) == t

tlb_set_dirty(t, vpn) ==
    LET index == get_tlb_index(t, vpn)
        tag == get_tlb_tag(t, vpn)
        entry == find_tlb_entry(t.sets[index], tag)
    IN IF entry # NULL THEN [t EXCEPT !.sets[index].entries[entry].dirty = TRUE] ELSE t

\* ------------------------------------------------------ multilevel_cache.c
encode_hit_level(level) == CACHE_HIT_L1 + level

validate_hierarchy(configs, num_levels) ==
    \A i \in 1 .. num_levels - 1 :
        /\ ~(configs[i].size < configs[i - 1].size)
        /\ ~(configs[i].block_size < configs[i - 1].block_size)

\* The null multilevel_cache_t pointer: a hierarchy value without levels, so
\* that it can be told from a constructed one by its num_levels field.
NULL_mlc == [num_levels |-> 0, levels |-> << >>, level_accesses |-> << >>]

\* The null cache_config_t pointer (an array of no configurations).
NULL_configs == << >>

\* configs is the array of level configurations, indexed from 0
multilevel_cache_init(configs, num_levels) ==
    IF num_levels # 2 THEN NULL_mlc
    ELSE IF configs = NULL_configs THEN NULL_mlc
    ELSE IF ~validate_hierarchy(configs, num_levels) THEN NULL_mlc
    ELSE IF \E i \in 0 .. num_levels - 1 : cache_init(configs[i]) = NULL_cache THEN NULL_mlc
    ELSE [num_levels |-> num_levels,
          levels |-> [i \in 0 .. num_levels - 1 |-> cache_init(configs[i])],
          level_accesses |-> [i \in 0 .. num_levels - 1 |-> 0]]

\* The loop of multilevel_cache_access from `level` on.  results collects
\* what cache_access returned at each level the loop has reached.
RECURSIVE multilevel_access_from(_, _, _, _, _)
\* the loop body without the return on a hit: the later levels are accessed
\* as well, and the first level that hit is reported
multilevel_level_done_falls_through(mlc, level, r, addr, is_write, results) ==
    IF r.result = CACHE_HIT
    THEN [multilevel_access_from([mlc EXCEPT !.levels[level] = r.cache], level + 1,
                                 addr, is_write, Append(results, r.result))
             EXCEPT !.result = encode_hit_level(level)]
    ELSE multilevel_access_from([mlc EXCEPT !.levels[level] = r.cache], level + 1,
                                addr, is_write, Append(results, r.result))

\* the rest of one loop iteration, once cache_access has returned r
multilevel_level_done(mlc, level, r, addr, is_write, results) ==
    IF r.result = CACHE_HIT
    THEN [mlc |-> [mlc EXCEPT !.levels[level] = r.cache],
          result |-> encode_hit_level(level),
          results |-> Append(results, r.result)]
    ELSE multilevel_access_from([mlc EXCEPT !.levels[level] = r.cache], level + 1,
                                addr, is_write, Append(results, r.result))

\* multilevel_cache_access whose loop stops one level early
multilevel_access_from_l1_only(mlc, level, addr, is_write, results) ==
    IF ~(level < mlc.num_levels - 1)
    THEN [mlc |-> mlc, result |-> CACHE_MISS_ALL_LEVELS, results |-> results]
    ELSE multilevel_level_done(
           IF level > 0 THEN [mlc EXCEPT !.level_accesses[level] = @ + 1] ELSE mlc,
           level, cache_access(mlc.levels[level], addr, is_write),
           addr, is_write, results)

\* multilevel_cache_access that counts level_accesses at level 0 as well
multilevel_access_from_counts_l1(mlc, level, addr, is_write, results) ==
    IF ~(level < mlc.num_levels)
    THEN [mlc |-> mlc, result |-> CACHE_MISS_ALL_LEVELS, results |-> results]
    ELSE multilevel_level_done(
           [mlc EXCEPT !.level_accesses[level] = @ + 1],
           level, cache_access(mlc.levels[level], addr, is_write),
           addr, is_write, results)

multilevel_access_from(mlc, level, addr, is_write, results) ==
    IF ~(level < mlc.num_levels)
    THEN [mlc |-> mlc, result |-> CACHE_MISS_ALL_LEVELS, results |-> results]
    ELSE multilevel_level_done(
           IF level > 0 THEN [mlc EXCEPT !.level_accesses[level] = @ + 1] ELSE mlc,
           level, cache_access(mlc.levels[level], addr, is_write),
           addr, is_write, results)

multilevel_cache_access(mlc, addr, is_write) ==
    IF mlc.num_levels = NULL_mlc.num_levels
    THEN [mlc |-> mlc, result |-> CACHE_MISS_ALL_LEVELS, results |-> << >>]
    ELSE multilevel_access_from(mlc, 0, addr, is_write, << >>)

\* ---------------------------------------------------------------- main.c
get_vpn(vaddr) == Shr(vaddr, 12)

get_offset(vaddr) == BitAnd(vaddr, 4095)

make_paddr(ppn, offset) == BitOr(Shl32(ppn, 12), offset)

\* translate_address on a TLB miss, after pagetable_lookup has returned pl:
\* the fault handler if the page is absent, then tlb_insert.
translate_tlb_miss(t, pl, vpn) ==
    IF pl.result = PT_MISS
    THEN LET hf == pagetable_handle_fault(pl.pt, vpn)
         IN [tlb |-> IF hf.fatal THEN t ELSE tlb_insert(t, vpn, hf.ppn),
             pt |-> hf.pt, pt_result |-> PT_MISS, ppn |-> hf.ppn,
             faulted |-> TRUE, victim |-> hf.victim,
             disk_writes |-> hf.disk_writes, fatal |-> hf.fatal]
    ELSE [tlb |-> tlb_insert(t, vpn, pl.ppn), pt |-> pl.pt,
          pt_result |-> PT_HIT, ppn |-> pl.ppn,
          faulted |-> FALSE, victim |-> NULL, disk_writes |-> 0, fatal |-> FALSE]

\* the end of translate_address: "Set dirty bits on write" and make_paddr,
\* for the outcome r of the TLB hit or miss branch
translate_set_dirty(r, tlb_result, pl, vaddr, is_write) ==
    [tlb |-> IF is_write /\ ~r.fatal THEN tlb_set_dirty(r.tlb, get_vpn(vaddr)) ELSE r.tlb,
     pt |-> IF is_write /\ ~r.fatal THEN pagetable_set_dirty(r.pt, get_vpn(vaddr)) ELSE r.pt,
     tlb_result |-> tlb_result, pt_result |-> r.pt_result,
     lookup_result |-> pl.result, lookup_ppn |-> pl.ppn,
     vpn |-> get_vpn(vaddr), ppn |-> r.ppn,
     paddr |-> IF r.fatal THEN NULL ELSE make_paddr(r.ppn, get_offset(vaddr)),
     faulted |-> r.faulted, victim |-> r.victim, disk_writes |-> r.disk_writes,
     fatal |-> r.fatal]

\* One call of translate_address: TLB and page table afterwards, the two
\* result codes, the physical address, what the pagetable_lookup call
\* returned, whether pagetable_handle_fault ran and what it reported.
translate_address(t, pt0, vaddr, is_write) ==
    LET vpn == get_vpn(vaddr)
        tl == tlb_lookup(t, vpn)
        pl == pagetable_lookup(pt0, vpn)
    IN translate_set_dirty(
         IF tl.result = TLB_HIT
           THEN [tlb |-> tl.tlb, pt |-> pl.pt, pt_result |-> PT_HIT, ppn |-> tl.ppn,
                 faulted |-> FALSE, victim |-> NULL, disk_writes |-> 0, fatal |-> FALSE]
           ELSE translate_tlb_miss(tl.tlb, pl, vpn),
         tl.result, pl, vaddr, is_write)

\* ---------------------------------------------------------------- config.c
\* The command line is a record of the values given to each option, NULL for
\* an option that is not given; `unknown` tells that some argument is not an
\* option of the program.  A trace file name is a string, "" for none.
parse_assoc(code) ==
    CASE code = 1 -> DIRECT_MAPPED
      [] code = 2 -> FULLY_ASSOC
      [] code = 3 -> TWO_WAY
      [] code = 4 -> FOUR_WAY
      [] OTHER -> FULLY_ASSOC

\* is_power_of_2 that accepts every positive number
is_power_of_2_any_positive(n) == n > 0

is_power_of_2(n) == n > 0 /\ BitAnd(n, n - 1) = 0

\* the files the file system holds
ExistingFiles == {"trace.txt"}

file_exists(filename) == filename \in ExistingFiles

detect_task(config) ==
    IF config.num_levels >= 2 THEN 4
    ELSE IF config.cache.associativity # FULLY_ASSOC THEN 3
    ELSE IF config.cache.block_size # DEFAULT_BLOCK_SIZE THEN 2
    ELSE 1

\* The null sim_config_t pointer: a configuration without a task.
NULL_config == [task |-> 0]

\* one element of config->levels after the loop over argv and the defaulting
\* of what was left zero (the latter only when both -S1 and -S2 are given)
parse_level(size, block_size, assoc, both) ==
    [size |-> IF size = NULL THEN 0 ELSE size,
     block_size |-> IF both /\ (block_size = NULL \/ block_size = 0) THEN DEFAULT_BLOCK_SIZE
                    ELSE IF block_size = NULL THEN 0 ELSE block_size,
     associativity |-> IF assoc # NULL THEN parse_assoc(assoc)
                       ELSE IF both THEN FULLY_ASSOC ELSE 0]

\* the configuration as parse_arguments leaves it before detect_task
parse_options(argv) ==
    LET both == argv.S1 # NULL /\ argv.S2 # NULL
    IN [task |-> 0,
        cache |-> [size |-> IF argv.S = NULL THEN 0 ELSE argv.S,
                   block_size |-> IF argv.B = NULL THEN DEFAULT_BLOCK_SIZE ELSE argv.B,
                   associativity |-> IF argv.A = NULL THEN DIRECT_MAPPED
                                     ELSE parse_assoc(argv.A)],
        levels |-> [i \in 0 .. 1 |->
                       IF i = 0 THEN parse_level(argv.S1, argv.B1, argv.A1, both)
                       ELSE parse_level(argv.S2, argv.B2, argv.A2, both)],
        num_levels |-> IF both THEN 2 ELSE 0,
        tlb |-> [num_entries |-> IF argv.T = NULL THEN 0 ELSE argv.T,
                 associativity |-> IF argv.L = NULL THEN DIRECT_MAPPED
                                   ELSE parse_assoc(argv.L)],
        trace_file |-> argv.t]

parse_arguments(argv) ==
    IF argv.unknown THEN NULL_config
    ELSE [parse_options(argv) EXCEPT !.task = detect_task(parse_options(argv))]

\* the checks of one cache configuration, without the one on the way count
validate_cache_config_no_way_check(c) ==
    /\ ~(c.size <= 0 \/ c.size % 4 # 0)
    /\ ~(c.block_size < 4 \/ c.block_size % 4 # 0)
    /\ ~(c.block_size > c.size)

\* validate_config: the checks made of one cache configuration
validate_cache_config(c) ==
    /\ ~(c.size <= 0 \/ c.size % 4 # 0)
    /\ ~(c.block_size < 4 \/ c.block_size % 4 # 0)
    /\ ~(c.block_size > c.size)
    /\ CASE c.associativity = TWO_WAY -> ~(c.size % (c.block_size * 2) # 0)
         [] c.associativity = FOUR_WAY -> ~(c.size % (c.block_size * 4) # 0)
         [] OTHER -> TRUE

\* validate_config: the checks made of the TLB configuration
validate_tlb_config(t) ==
    /\ ~(t.num_entries < 2)
    /\ is_power_of_2(t.num_entries)
    /\ CASE t.associativity = TWO_WAY -> ~(t.num_entries % 2 # 0)
         [] t.associativity = FOUR_WAY -> ~(t.num_entries % 4 # 0)
         [] OTHER -> TRUE

validate_config(config) ==
    /\ IF config.num_levels = 0 THEN validate_cache_config(config.cache)
       ELSE /\ \A i \in 0 .. config.num_levels - 1 : validate_cache_config(config.levels[i])
            /\ (config.num_levels >= 2 => ~(config.levels[1].size < config.levels[0].size))
    /\ validate_tlb_config(config.tlb)
    /\ config.trace_file # ""
    /\ file_exists(config.trace_file)

\* ------------------------------------------------------------------ state
VARIABLES
    tlb,            \* main.c: static tlb_t *tlb
    pt,             \* pagetable.c: the static page table, frame lists and counters
    single_cache,   \* main.c: static cache_t *single_cache
    multi_cache,    \* main.c: static multilevel_cache_t *multi_cache
    ml_out,         \* what the last multilevel_cache_access call returned
    tlb_out,        \* the last call made on the TLB directly
    cache_out,      \* what the last cache_access call returned and signalled
    pt_out,         \* what the last page-table call returned and signalled
    xl_out,         \* what the last translate_address call returned
    block_mru,      \* history: the blocks accessed so far, most recent first
    written_since,  \* history: blocks written since the access that last missed on them
    vpn_mru,        \* history: the VPNs translated so far, most recent first
    script,         \* the fixed access script of a scripted run (empty otherwise)
    log,            \* the results of the script's accesses made so far, in order
    args,           \* main.c: argv, the options of the command line
    config,         \* main.c: static sim_config_t *config
    pc,             \* the place main() has reached
    output          \* what main() has printed, and its exit status once it returned

vars == <<tlb, pt, single_cache, multi_cache, ml_out, tlb_out, cache_out, pt_out, xl_out, block_mru, written_since,
          vpn_mru, script, log, args, config, pc, output>>

\* Configurations and inputs the runs draw from.
CacheConfigs ==
    { [size |-> 8,  block_size |-> 4, associativity |-> DIRECT_MAPPED],
      [size |-> 8,  block_size |-> 4, associativity |-> FULLY_ASSOC],
      [size |-> 12, block_size |-> 4, associativity |-> FULLY_ASSOC],
      [size |-> 16, block_size |-> 4, associativity |-> TWO_WAY],
      [size |-> 16, block_size |-> 4, associativity |-> FOUR_WAY],
      [size |-> 12, block_size |-> 4, associativity |-> DIRECT_MAPPED],
      [size |-> 24, block_size |-> 12, associativity |-> FULLY_ASSOC] }

CacheAddrs == {0, 2, 8, 12, 16, 1073741840}

DefaultCacheConfig == [size |-> 8, block_size |-> 4, associativity |-> FULLY_ASSOC]

DefaultTlbConfig == [num_entries |-> 2, associativity |-> DIRECT_MAPPED]

NoCacheOut == [addr |-> NULL, is_write |-> FALSE, result |-> NULL, index |-> NULL,
               way |-> NULL, writebacks |-> << >>]

NoPtOut == [op |-> "none", vpn |-> NULL, result |-> NULL, ppn |-> NULL, victim |-> NULL,
            disk_writes |-> 0, fatal |-> FALSE]

NoMlOut == [addr |-> NULL, is_write |-> FALSE, result |-> NULL, results |-> << >>, calls |-> 0]

NoTlbOut == [op |-> "none", vpn |-> NULL, ppn |-> NULL, result |-> NULL, calls |-> 0]

NoXlOut == [vaddr |-> NULL, prev |-> NULL, is_write |-> FALSE, tlb_result |-> NULL,
            pt_result |-> NULL,
            vpn |-> NULL, ppn |-> NULL, paddr |-> NULL, faulted |-> FALSE,
            victim |-> NULL, fatal |-> FALSE]

\* a command line without options
NoArgs == [S |-> NULL, B |-> NULL, A |-> NULL, S1 |-> NULL, S2 |-> NULL, B1 |-> NULL,
           B2 |-> NULL, A1 |-> NULL, A2 |-> NULL, T |-> NULL, L |-> NULL, t |-> "",
           unknown |-> FALSE]

\* the statistics main() prints at the end of the trace, before they are printed
NoStats == [tlb |-> << >>, pagetable |-> << >>, cache |-> << >>]

NoOutput == [stderr |-> << >>, stats |-> NoStats, exit |-> NULL]

\* the sim_config_t of a run that is given its component configurations
SimConfig(tlb_config, cache_config, levels, num_levels) ==
    LET c == [task |-> 0, cache |-> cache_config, levels |-> levels,
              num_levels |-> num_levels, tlb |-> tlb_config, trace_file |-> "trace.txt"]
    IN [c EXCEPT !.task = detect_task(c)]

NoLevels == [i \in 0 .. 1 |-> [size |-> 0, block_size |-> 0, associativity |-> 0]]

\* main(): tlb_init, pagetable_init, cache_init, before the first trace entry
Construct(tlb_config, cache_config) ==
    /\ args = NoArgs
    /\ config = SimConfig(tlb_config, cache_config, NoLevels, 0)
    /\ pc = "trace"
    /\ output = NoOutput
    /\ tlb = tlb_init(tlb_config)
    /\ pt = pagetable_init
    /\ single_cache = cache_init(cache_config)
    /\ multi_cache = NULL_mlc
    /\ ml_out = NoMlOut
    /\ tlb_out = NoTlbOut
    /\ cache_out = NoCacheOut
    /\ pt_out = NoPtOut
    /\ xl_out = NoXlOut
    /\ block_mru = << >>
    /\ written_since = {}
    /\ vpn_mru = << >>
    /\ log = << >>

MoveToFront(seq, x) == <<x>> \o SelectSeq(seq, LAMBDA y : y # x)

\* the block of an address, as the cache's geometry cuts it
BlockOf(cache, addr) == Shr(addr, cache.offset_bits)

\* cache_access on the simulator's cache, with the history kept alongside
CacheStep(addr, is_write) ==
    LET r == cache_access(single_cache, addr, is_write)
        b == BlockOf(single_cache, addr)
    IN /\ single_cache' = r.cache
       /\ cache_out' = [addr |-> addr, is_write |-> is_write, result |-> r.result,
                        index |-> r.index, way |-> r.way, writebacks |-> r.writebacks]
       /\ block_mru' = MoveToFront(block_mru, b)
       /\ written_since' = IF is_write THEN written_since \cup {b}
                           ELSE IF r.result = CACHE_MISS THEN written_since \ {b}
                           ELSE written_since

\* ------------------------------------------- the cache used on its own
InitCache ==
    /\ \E cc \in CacheConfigs : Construct(DefaultTlbConfig, cc)
    /\ script = << >>

CacheAccess(addr, is_write) ==
    /\ single_cache.accesses < MaxCacheAccesses
    /\ CacheStep(addr, is_write)
    /\ UNCHANGED <<args, config, pc, output, multi_cache, ml_out, tlb_out, tlb, pt, pt_out, xl_out, vpn_mru, script, log>>

NextCache == \E addr \in CacheAddrs, is_write \in BOOLEAN : CacheAccess(addr, is_write)

SpecCache == InitCache /\ [][NextCache]_vars

\* ------------------------------------------------ properties of the cache
\* a step in which cache_access ran on the simulator's cache
CacheStepTaken == single_cache'.accesses # single_cache.accesses

\* the set a block maps to
BlockIndex(cache, b) == cache_get_index(cache, Shl32(b, cache.offset_bits))

\* the blocks held by the valid lines of set s
Resident(cache, s) ==
    {Shl32(cache.sets[s].lines[w].tag, cache.index_bits) + s :
        w \in {x \in 0 .. cache.ways_per_set - 1 : cache.sets[s].lines[x].valid}}

\* the blocks of set s in the order of their last access, most recent first
SetMru(cache, mru, s) == SelectSeq(mru, LAMBDA b : BlockIndex(cache, b) = s)

\* the ways_per_set most recently accessed distinct blocks of set s
TopWays(cache, mru, s) ==
    LET q == SetMru(cache, mru, s)
    IN {q[i] : i \in 1 .. (IF Len(q) < cache.ways_per_set THEN Len(q) ELSE cache.ways_per_set)}

\* the blocks of set s from the head of its recency list to the tail,
\* valid lines only
RECURSIVE LruBlocksFrom(_, _, _)
LruBlocksFrom(cache, s, w) ==
    IF w = NULL THEN << >>
    ELSE LET l == cache.sets[s].lines[w]
             rest == LruBlocksFrom(cache, s, l.next)
         IN IF l.valid THEN <<Shl32(l.tag, cache.index_bits) + s>> \o rest ELSE rest

ResidentIsTop ==
    \A s \in 0 .. single_cache.num_sets - 1 :
        /\ Resident(single_cache, s) = TopWays(single_cache, block_mru, s)
        /\ single_cache.ways_per_set > 1 =>
              LET q == SetMru(single_cache, block_mru, s)
                  r == LruBlocksFrom(single_cache, s, single_cache.sets[s].lru_head)
              IN r = SubSeq(q, 1, Len(r))

\* C1: true LRU.  cache_access returns CACHE_HIT exactly when the accessed
\* block is among the ways_per_set most recently accessed distinct blocks of
\* its set, and after every access the valid lines of each set hold exactly
\* those blocks, linked from head to tail in the order of their last access
\* (so a miss on a full set evicted the block accessed longest ago).
C1_TrueLRU ==
    [][CacheStepTaken =>
         LET b == BlockOf(single_cache, cache_out'.addr)
         IN /\ (cache_out'.result = CACHE_HIT)
                  <=> (b \in TopWays(single_cache, block_mru, BlockIndex(single_cache, b)))
            /\ ResidentIsTop']_vars

\* a fully-associative cache of N >= 2 ways after N+1 distinct blocks and a
\* re-access of the first one: N+2 accesses, all of them misses
C1_Witness ==
    /\ single_cache.associativity = FULLY_ASSOC
    /\ single_cache.ways_per_set >= 2
    /\ Len(block_mru) = single_cache.ways_per_set + 1
    /\ single_cache.accesses = single_cache.ways_per_set + 2
    /\ single_cache.misses = single_cache.ways_per_set + 2

\* ------------------- the script A, B, C, A, B on a two-line LRU store
TwoLineConfigs ==
    { [size |-> 8,  block_size |-> 4, associativity |-> FULLY_ASSOC],
      [size |-> 16, block_size |-> 8, associativity |-> FULLY_ASSOC] }

InitLruScript ==
    /\ \E cc \in TwoLineConfigs : Construct(DefaultTlbConfig, cc)
    /\ \E A \in CacheAddrs, B \in CacheAddrs, C \in CacheAddrs :
          /\ Cardinality({BlockOf(single_cache, A), BlockOf(single_cache, B),
                          BlockOf(single_cache, C)}) = 3
          /\ script = <<A, B, C, A, B>>

ScriptAccess(is_write) ==
    /\ Len(log) < Len(script)
    /\ CacheStep(script[Len(log) + 1], is_write)
    /\ log' = Append(log, cache_out'.result)
    /\ UNCHANGED <<args, config, pc, output, multi_cache, ml_out, tlb_out, tlb, pt, pt_out, xl_out, vpn_mru, script>>

NextLruScript == \E is_write \in BOOLEAN : ScriptAccess(is_write)

SpecLruScript == InitLruScript /\ [][NextLruScript]_vars

ScriptBlock(i) == BlockOf(single_cache, script[i])

\* C2 as stated: C's install evicts A, the following access to A misses and
\* the access to B after that hits.
C2_Original ==
    /\ Len(log) = 3 => ScriptBlock(1) \notin Resident(single_cache, 0)
    /\ Len(log) >= 4 => log[4] = CACHE_MISS
    /\ Len(log) >= 5 => log[5] = CACHE_HIT

\* C2 (amended): C's install evicts A, the following access to A misses and
\* evicts B (by then the LRU key), and the access to B after that misses.
C2_ScriptABCAB ==
    /\ Len(log) = 3 => Resident(single_cache, 0) = {ScriptBlock(2), ScriptBlock(3)}
    /\ Len(log) >= 4 => log[4] = CACHE_MISS
    /\ Len(log) = 4 => Resident(single_cache, 0) = {ScriptBlock(3), ScriptBlock(1)}
    /\ Len(log) >= 5 => log[5] = CACHE_MISS

\* the script has run to its end
C2_Witness == Len(script) = 5 /\ Len(log) = 5 /\ single_cache.accesses = 5

\* the line a step's cache_access hit or installed, before and after the step
TouchedOld == single_cache.sets[cache_out'.index].lines[cache_out'.way]

TouchedNew == single_cache'.sets[cache_out'.index].lines[cache_out'.way]

\* C3: on a miss write_block_to_memory is called once if the victim is valid
\* and dirty and not at all otherwise; the call is made while the line still
\* holds the victim (old tag, dirty) and its address decomposes to the
\* victim's tag and set with offset 0; the block written back had been
\* written and is no longer resident; the installed line is valid, carries
\* the new tag and has dirty = is_write.  A hit raises no write-back.
C3_WriteBack ==
    [][CacheStepTaken =>
         LET wbs == cache_out'.writebacks
         IN IF cache_out'.result = CACHE_MISS
            THEN /\ Len(wbs) = (IF TouchedOld.valid /\ TouchedOld.dirty THEN 1 ELSE 0)
                 /\ Len(wbs) = 1 =>
                      /\ wbs[1].line = TouchedOld
                      /\ cache_get_tag(single_cache, wbs[1].addr) = TouchedOld.tag
                      /\ cache_get_index(single_cache, wbs[1].addr) = cache_out'.index
                      /\ cache_get_offset(single_cache, wbs[1].addr) = 0
                      /\ BlockOf(single_cache, wbs[1].addr) \in written_since
                      /\ BlockOf(single_cache, wbs[1].addr)
                            \notin Resident(single_cache', cache_out'.index)
                 /\ TouchedNew.valid
                 /\ TouchedNew.tag = cache_get_tag(single_cache, cache_out'.addr)
                 /\ TouchedNew.dirty = cache_out'.is_write
            ELSE wbs = << >>]_vars

\* a read miss has just replaced a dirty line: one write-back, clean install
C3_Witness ==
    /\ cache_out.result = CACHE_MISS
    /\ ~cache_out.is_write
    /\ Len(cache_out.writebacks) = 1
    /\ ~single_cache.sets[cache_out.index].lines[cache_out.way].dirty

DirtyIffWritten ==
    \A s \in 0 .. single_cache.num_sets - 1 : \A w \in 0 .. single_cache.ways_per_set - 1 :
        LET l == single_cache.sets[s].lines[w]
        IN l.valid => (l.dirty <=> (Shl32(l.tag, single_cache.index_bits) + s) \in written_since)

\* C4: a write hit sets dirty, a write miss installs dirty, a read miss
\* installs clean, a read hit leaves the dirty bit as it was, and no other
\* line's dirty bit changes; so a valid line is dirty iff its block was
\* written since the miss that installed it.
C4_DirtyBits ==
    /\ []DirtyIffWritten
    /\ [][CacheStepTaken =>
            /\ TouchedNew.dirty = (cache_out'.is_write
                                     \/ (cache_out'.result = CACHE_HIT /\ TouchedOld.dirty))
            /\ \A s \in 0 .. single_cache.num_sets - 1 :
                 \A w \in 0 .. single_cache.ways_per_set - 1 :
                    (s # cache_out'.index \/ w # cache_out'.way) =>
                        single_cache'.sets[s].lines[w].dirty = single_cache.sets[s].lines[w].dirty]_vars

\* a read hit on a dirty line, with a clean line resident next to it
C4_Witness ==
    /\ cache_out.result = CACHE_HIT
    /\ ~cache_out.is_write
    /\ single_cache.sets[cache_out.index].lines[cache_out.way].dirty
    /\ \E s \in 0 .. single_cache.num_sets - 1 : \E w \in 0 .. single_cache.ways_per_set - 1 :
          single_cache.sets[s].lines[w].valid /\ ~single_cache.sets[s].lines[w].dirty

CountersConsistent ==
    /\ single_cache.accesses = single_cache.hits + single_cache.misses
    /\ single_cache.accesses = single_cache.reads + single_cache.writes
    /\ single_cache.hits = single_cache.read_hits + single_cache.write_hits
    /\ single_cache.read_hits <= single_cache.reads
    /\ single_cache.write_hits <= single_cache.writes

Inc(b) == IF b THEN 1 ELSE 0

\* C5: the counters are consistent after every access, and each call adds one
\* to accesses, to exactly one of reads/writes and to exactly one of
\* hits/misses (hits iff it returned CACHE_HIT), and the hit is split by mode.
C5_Counters ==
    /\ []CountersConsistent
    /\ [][CacheStepTaken =>
            LET hit == cache_out'.result = CACHE_HIT
                wr == cache_out'.is_write
            IN /\ cache_out'.result \in {CACHE_HIT, CACHE_MISS}
               /\ single_cache'.accesses = single_cache.accesses + 1
               /\ single_cache'.writes = single_cache.writes + Inc(wr)
               /\ single_cache'.reads = single_cache.reads + Inc(~wr)
               /\ single_cache'.hits = single_cache.hits + Inc(hit)
               /\ single_cache'.misses = single_cache.misses + Inc(~hit)
               /\ single_cache'.write_hits = single_cache.write_hits + Inc(hit /\ wr)
               /\ single_cache'.read_hits = single_cache.read_hits + Inc(hit /\ ~wr)]_vars

\* reads and writes, hits and misses of both modes have all occurred
C5_Witness ==
    /\ single_cache.read_hits >= 1
    /\ single_cache.write_hits >= 1
    /\ single_cache.reads > single_cache.read_hits
    /\ single_cache.writes > single_cache.write_hits

\* --------------------------------------- the page table used on its own
\* The calls are made in the orders translate_address makes them: a lookup
\* of any VPN; pagetable_handle_fault only for the VPN whose lookup has just
\* returned PT_MISS; pagetable_set_dirty only for the VPN just looked up or
\* faulted in.
InitPT ==
    /\ Construct(DefaultTlbConfig, DefaultCacheConfig)
    /\ script = << >>

PagetableLookup(vpn) ==
    /\ pt.pt_accesses < MaxPtCalls
    /\ LET r == pagetable_lookup(pt, vpn)
       IN /\ pt' = r.pt
          /\ pt_out' = [NoPtOut EXCEPT !.op = "lookup", !.vpn = vpn,
                                       !.result = r.result, !.ppn = r.ppn]
    /\ UNCHANGED <<args, config, pc, output, multi_cache, ml_out, tlb_out, tlb, single_cache, cache_out, xl_out, block_mru, written_since,
                   vpn_mru, script, log>>

PagetableHandleFault ==
    /\ pt_out.op = "lookup"
    /\ pt_out.result = PT_MISS
    /\ LET r == pagetable_handle_fault(pt, pt_out.vpn)
       IN /\ pt' = r.pt
          /\ pt_out' = [NoPtOut EXCEPT !.op = "handle_fault", !.vpn = pt_out.vpn,
                                       !.ppn = r.ppn, !.victim = r.victim,
                                       !.disk_writes = r.disk_writes, !.fatal = r.fatal]
    /\ UNCHANGED <<args, config, pc, output, multi_cache, ml_out, tlb_out, tlb, single_cache, cache_out, xl_out, block_mru, written_since,
                   vpn_mru, script, log>>

PagetableSetDirty ==
    /\ pt_out.op \in {"lookup", "handle_fault"}
    /\ pt' = pagetable_set_dirty(pt, pt_out.vpn)
    /\ pt_out' = [NoPtOut EXCEPT !.op = "set_dirty", !.vpn = pt_out.vpn]
    /\ UNCHANGED <<args, config, pc, output, multi_cache, ml_out, tlb_out, tlb, single_cache, cache_out, xl_out, block_mru, written_since,
                   vpn_mru, script, log>>

NextPT ==
    \/ \E vpn \in TraceVpns : PagetableLookup(vpn)
    \/ PagetableHandleFault
    \/ PagetableSetDirty

SpecPT == InitPT /\ [][NextPT]_vars

\* the frames linked from a list head, in order; the walk is cut after
\* fuel steps so that it ends on a malformed list as well
RECURSIVE ListFrom(_, _, _)
ListFrom(pages, page, fuel) ==
    IF page = NULL \/ fuel = 0 THEN << >>
    ELSE <<page>> \o ListFrom(pages, pages[page].next, fuel - 1)

FreeList == ListFrom(pt.pages, pt.free_page_list, NUM_PHYSICAL_PAGES + 1)

UsedList == ListFrom(pt.pages, pt.used_page_list, NUM_PHYSICAL_PAGES + 1)

SeqRange(q) == {q[i] : i \in 1 .. Len(q)}

FramesPartitioned ==
    /\ Len(FreeList) + Len(UsedList) = NUM_PHYSICAL_PAGES
    /\ SeqRange(FreeList) \cup SeqRange(UsedList) = 0 .. NUM_PHYSICAL_PAGES - 1
    /\ SeqRange(FreeList) \cap SeqRange(UsedList) = {}

\* C7: after pagetable_init and after every page-table call each frame is in
\* exactly one of the free list and the used list and the two lengths add up
\* to the number of frames; a frame in the used list stays there, and the
\* used list gains a frame only in pagetable_handle_fault, namely the frame
\* it returns, taken from the head of the free list.
C7_FrameLists ==
    /\ []FramesPartitioned
    /\ [][/\ SeqRange(UsedList) \subseteq SeqRange(UsedList')
          /\ SeqRange(UsedList') # SeqRange(UsedList) =>
                /\ pt_out'.op = "handle_fault"
                /\ pt.free_page_list # NULL
                /\ SeqRange(UsedList') = SeqRange(UsedList) \cup {pt.free_page_list}
                /\ pt.pages[pt.free_page_list].frame_id = pt_out'.ppn]_vars

\* a fault has just evicted a page while another page was brought to the
\* head by a lookup before: both lists were exercised, the free list is empty
C7_Witness ==
    /\ pt_out.op = "handle_fault"
    /\ pt_out.victim # NULL
    /\ Len(UsedList) = NUM_PHYSICAL_PAGES
    /\ pt.pt_accesses > pt.page_faults

\* a step in which pagetable_handle_fault ran
FaultStepTaken == pt'.page_faults # pt.page_faults

\* C8: after pagetable_handle_fault(vpn) for a non-present vpn, page_table[vpn]
\* is present, clean and maps to the returned frame; that frame's pte points
\* back to page_table[vpn] and it is the head of the used list; an evicted
\* victim's PTE is neither present nor dirty; no other entry changed.
C8_FaultPostcondition ==
    [][FaultStepTaken =>
         LET vpn == pt_out'.vpn
             victims == {v \in TraceVpns : pt.page_table[v].present
                                            /\ ~pt'.page_table[v].present}
         IN /\ ~pt.page_table[vpn].present
            /\ pt'.page_table[vpn] = [present |-> TRUE, dirty |-> FALSE, ppn |-> pt_out'.ppn]
            /\ pt_out'.ppn \in 0 .. NUM_PHYSICAL_PAGES - 1
            /\ pt'.pages[pt'.frame_table[pt_out'.ppn]].frame_id = pt_out'.ppn
            /\ pt'.pages[pt'.frame_table[pt_out'.ppn]].pte = vpn
            /\ pt'.used_page_list = pt'.frame_table[pt_out'.ppn]
            /\ victims = (IF pt_out'.victim = NULL THEN {} ELSE {pt_out'.victim})
            /\ pt_out'.victim # NULL =>
                  /\ pt.page_table[pt_out'.victim].ppn = pt_out'.ppn
                  /\ ~pt'.page_table[pt_out'.victim].present
                  /\ ~pt'.page_table[pt_out'.victim].dirty
            /\ \A v \in TraceVpns \ {vpn, pt_out'.victim} :
                  pt'.page_table[v] = pt.page_table[v]]_vars

\* a fault has just evicted a dirty page
C8_Witness ==
    /\ pt_out.op = "handle_fault"
    /\ pt_out.victim # NULL
    /\ pt_out.disk_writes = 1
    /\ pt.page_table[pt_out.vpn].present

PresentVpns == {v \in TraceVpns : pt.page_table[v].present}

\* C9: the k-th page fault, for k up to the number of frames, returns frame
\* k-1 and evicts nothing (all faulted pages are still present); a fault
\* evicts a page only when the free list was empty.
C9_FreeFramesFirst ==
    /\ [](pt.page_faults <= NUM_PHYSICAL_PAGES =>
            /\ Cardinality(PresentVpns) = pt.page_faults
            /\ pt_out.op = "handle_fault" =>
                  /\ pt_out.ppn = pt.page_faults - 1
                  /\ pt_out.victim = NULL /\ pt_out.disk_writes = 0)
    /\ [][(FaultStepTaken /\ (pt_out'.victim # NULL \/ PresentVpns \ PresentVpns' # {}))
             => pt.free_page_list = NULL]_vars

\* the last free frame has just been handed out
C9_Witness ==
    /\ pt_out.op = "handle_fault"
    /\ pt.page_faults = NUM_PHYSICAL_PAGES
    /\ pt_out.ppn = NUM_PHYSICAL_PAGES - 1
    /\ pt.free_page_list = NULL

\* ------------------------------------------------ the simulator (main.c)
SimConfigs ==
    { [tlb |-> [num_entries |-> 2, associativity |-> DIRECT_MAPPED],
       cache |-> [size |-> 8, block_size |-> 4, associativity |-> FULLY_ASSOC]],
      [tlb |-> [num_entries |-> 4, associativity |-> FULLY_ASSOC],
       cache |-> [size |-> 16, block_size |-> 4, associativity |-> TWO_WAY]],
      [tlb |-> [num_entries |-> 4, associativity |-> TWO_WAY],
       cache |-> [size |-> 8, block_size |-> 4, associativity |-> DIRECT_MAPPED]] }

\* the virtual addresses a trace line can carry: pages 0, 1, 2, 3 and 5
TraceVaddrs == {0, 4100, 8192, 12288, 20480}

Init ==
    /\ \E sc \in SimConfigs : Construct(sc.tlb, sc.cache)
    /\ script = << >>

\* the trace loop after translate_address has returned x: the outputs are
\* recorded and cache_access runs on the physical address
AccessTranslated(x, vaddr, is_write) ==
    /\ tlb' = x.tlb
    /\ pt' = x.pt
    /\ xl_out' = [vaddr |-> vaddr, prev |-> xl_out.vaddr, is_write |-> is_write,
                  tlb_result |-> x.tlb_result, pt_result |-> x.pt_result,
                  vpn |-> x.vpn, ppn |-> x.ppn, paddr |-> x.paddr,
                  faulted |-> x.faulted, victim |-> x.victim, fatal |-> x.fatal]
    /\ pt_out' = IF x.faulted
                   THEN [NoPtOut EXCEPT !.op = "handle_fault", !.vpn = x.vpn,
                                        !.ppn = x.ppn, !.victim = x.victim,
                                        !.disk_writes = x.disk_writes,
                                        !.fatal = x.fatal]
                   ELSE [NoPtOut EXCEPT !.op = "lookup", !.vpn = x.vpn,
                                        !.result = x.lookup_result,
                                        !.ppn = x.lookup_ppn]
    /\ vpn_mru' = MoveToFront(vpn_mru, x.vpn)
    /\ IF x.fatal
         THEN UNCHANGED <<single_cache, cache_out, block_mru, written_since>>
         ELSE CacheStep(x.paddr, is_write)

\* one iteration of the trace loop: translate_address, then cache_access on
\* the physical address; the FATAL exit of the fault handler ends the run
ProcessAccess(vaddr, is_write) ==
    /\ tlb.accesses < MaxTrace
    /\ ~xl_out.fatal
    /\ AccessTranslated(translate_address(tlb, pt, vaddr, is_write), vaddr, is_write)
    /\ UNCHANGED <<args, config, pc, output, multi_cache, ml_out, tlb_out, script, log>>

Next == \E vaddr \in TraceVaddrs, is_write \in BOOLEAN : ProcessAccess(vaddr, is_write)

Spec == Init /\ [][Next]_vars

\* a step in which translate_address ran
XlStepTaken == tlb'.accesses # tlb.accesses

\* the present page whose last translate_address is the oldest
LruPresentVpn ==
    LET q == SelectSeq(vpn_mru, LAMBDA v : pt.page_table[v].present)
    IN q[Len(q)]

\* C6: a page fault adds one to page_faults; with every frame in use it evicts
\* exactly the present page whose most recent translate_address (TLB hits
\* included) is the oldest, and it adds one to page_faults_dirty iff that
\* page's PTE was dirty; with a free frame left it evicts nothing; a step
\* without a fault changes neither counter.
C6_PageLRU ==
    [][XlStepTaken =>
         LET evicted == PresentVpns \ PresentVpns'
         IN IF xl_out'.faulted
            THEN /\ pt'.page_faults = pt.page_faults + 1
                 /\ IF pt.free_page_list = NULL
                      THEN /\ evicted = {LruPresentVpn}
                           /\ xl_out'.victim = LruPresentVpn
                           /\ pt'.page_faults_dirty = pt.page_faults_dirty
                                 + Inc(pt.page_table[LruPresentVpn].dirty)
                      ELSE /\ evicted = {}
                           /\ pt'.page_faults_dirty = pt.page_faults_dirty
            ELSE /\ pt'.page_faults = pt.page_faults
                 /\ pt'.page_faults_dirty = pt.page_faults_dirty
                 /\ evicted = {}]_vars

\* a fault has just evicted a dirty page after an earlier TLB hit had
\* reordered the pages
C6_Witness ==
    /\ xl_out.faulted
    /\ xl_out.victim # NULL
    /\ pt_out.disk_writes = 1
    /\ pt.page_faults_dirty = 1
    /\ tlb.hits >= 1

\* C10 as stated: the page table is consulted on TLB misses only, so
\* pt_accesses equals the number of TLB misses.
C10_Original == pt.pt_accesses = tlb.misses

\* ------------------------------------------- a fixed trace, end to end
\* The simulator run on a three-line trace [R a, W b, R a+4] with a and b in
\* different pages; the claimed configuration and trace are among them.
ScenarioConfigs ==
    { [tlb |-> [num_entries |-> 4, associativity |-> DIRECT_MAPPED],
       cache |-> [size |-> 1024, block_size |-> 16, associativity |-> FULLY_ASSOC]],
      [tlb |-> [num_entries |-> 4, associativity |-> FULLY_ASSOC],
       cache |-> [size |-> 64, block_size |-> 16, associativity |-> TWO_WAY]],
      [tlb |-> [num_entries |-> 2, associativity |-> DIRECT_MAPPED],
       cache |-> [size |-> 32, block_size |-> 16, associativity |-> DIRECT_MAPPED]],
      [tlb |-> [num_entries |-> 4, associativity |-> TWO_WAY],
       cache |-> [size |-> 64, block_size |-> 8, associativity |-> FOUR_WAY]] }

ScenarioFirst == {4096, 12296, 20480}

ScenarioSecond == {8192, 0, 12288, 20488}

InitScenario ==
    /\ \E sc \in ScenarioConfigs : Construct(sc.tlb, sc.cache)
    /\ \E a \in ScenarioFirst, b \in ScenarioSecond :
         /\ get_vpn(a) # get_vpn(b)
         /\ script = << [is_write |-> FALSE, vaddr |-> a],
                        [is_write |-> TRUE, vaddr |-> b],
                        [is_write |-> FALSE, vaddr |-> a + 4] >>

\* the next line of the trace goes through the trace loop
ScenarioAccess ==
    /\ Len(log) < Len(script)
    /\ AccessTranslated(translate_address(tlb, pt, script[Len(log) + 1].vaddr,
                                          script[Len(log) + 1].is_write),
                        script[Len(log) + 1].vaddr, script[Len(log) + 1].is_write)
    /\ log' = Append(log, [tlb_result |-> xl_out'.tlb_result, faulted |-> xl_out'.faulted,
                           pt_result |-> xl_out'.pt_result, paddr |-> xl_out'.paddr,
                           cache_result |-> cache_out'.result,
                           index |-> cache_out'.index, way |-> cache_out'.way])
    /\ UNCHANGED <<args, config, pc, output, multi_cache, ml_out, tlb_out, script>>

NextScenario == ScenarioAccess

SpecScenario == InitScenario /\ [][NextScenario]_vars

\* the TLB entry that holds vpn, or NULL
TlbEntryOf(t, vpn) == find_tlb_entry(t.sets[get_tlb_index(t, vpn)], get_tlb_tag(t, vpn))

\* the two pages of the trace do not compete for one single-entry TLB set
ScenarioTlbRoom ==
    \/ tlb.ways_per_set > 1
    \/ get_tlb_index(tlb, get_vpn(script[1].vaddr)) # get_tlb_index(tlb, get_vpn(script[2].vaddr))

\* the two blocks of the trace do not compete for one single-line cache set
ScenarioCacheRoom ==
    \/ single_cache.ways_per_set > 1
    \/ cache_get_index(single_cache, log[1].paddr) # cache_get_index(single_cache, log[2].paddr)

\* C11: on the trace [R a, W b, R a+4] from the initial state (a, b in
\* different pages; the claim's case is a = 0x1000, b = 0x2000 with a 1024/16
\* fully associative cache and a 4-entry direct-mapped TLB), accesses 1 and 2
\* are each a TLB miss, a page fault and a cache miss; right after access 2
\* the cache line, the TLB entry and the PTE of b are dirty; access 3 is a
\* TLB hit and a cache hit on the line access 1 installed, whenever the two
\* pages and the two blocks do not compete for a single-way set.
C11_EndToEnd ==
    /\ \A i \in 1 .. 2 :
         Len(log) >= i =>
           /\ log[i].tlb_result = TLB_MISS
           /\ log[i].faulted /\ log[i].pt_result = PT_MISS
           /\ log[i].cache_result = CACHE_MISS
    /\ Len(log) >= 2 => log[1].paddr = 0 + get_offset(script[1].vaddr)
                        /\ log[2].paddr = 4096 + get_offset(script[2].vaddr)
    /\ Len(log) = 2 =>
         /\ single_cache.sets[log[2].index].lines[log[2].way].valid
         /\ single_cache.sets[log[2].index].lines[log[2].way].dirty
         /\ TlbEntryOf(tlb, get_vpn(script[2].vaddr)) # NULL
         /\ tlb.sets[get_tlb_index(tlb, get_vpn(script[2].vaddr))]
               .entries[TlbEntryOf(tlb, get_vpn(script[2].vaddr))].dirty
         /\ pt.page_table[get_vpn(script[2].vaddr)].present
         /\ pt.page_table[get_vpn(script[2].vaddr)].dirty
         /\ ~pt.page_table[get_vpn(script[1].vaddr)].dirty
    /\ (Len(log) = 3 /\ ScenarioTlbRoom) =>
         /\ log[3].tlb_result = TLB_HIT
         /\ ~log[3].faulted
         /\ log[3].paddr = log[1].paddr + 4
    /\ (Len(log) = 3 /\ ScenarioTlbRoom /\ ScenarioCacheRoom) =>
         /\ log[3].cache_result = CACHE_HIT
         /\ log[3].index = log[1].index /\ log[3].way = log[1].way

\* C11 witness: the claimed configuration has run the claimed trace to its end
C11_Witness ==
    /\ Len(log) = 3
    /\ tlb.num_entries = 4 /\ tlb.associativity = DIRECT_MAPPED
    /\ single_cache.size = 1024 /\ single_cache.block_size = 16
    /\ single_cache.associativity = FULLY_ASSOC
    /\ script[1].vaddr = 4096 /\ script[2].vaddr = 8192 /\ script[3].vaddr = 4100
    /\ log[3].tlb_result = TLB_HIT /\ log[3].cache_result = CACHE_HIT
    /\ log[2].cache_result = CACHE_MISS /\ log[1].faulted

\* a TLB, a cache without their statistics counters
TlbContent(t) == [t EXCEPT !.accesses = 0, !.hits = 0, !.misses = 0]

CacheContent(c) ==
    [c EXCEPT !.accesses = 0, !.hits = 0, !.misses = 0, !.reads = 0, !.read_hits = 0,
              !.writes = 0, !.write_hits = 0]

\* a read of the address the previous trace line accessed
RepeatedRead ==
    /\ XlStepTaken
    /\ xl_out.vaddr # NULL
    /\ xl_out'.vaddr = xl_out.vaddr
    /\ ~xl_out'.is_write

\* C12: a read of virtual address a made right after an access to a is a TLB
\* hit and a cache hit, yields the same physical address, and leaves the TLB,
\* the page table, the frame lists and the cache as they were except for the
\* counters: TLB accesses and hits, page-table accesses, cache accesses,
\* hits, reads and read hits each advance by one, nothing else moves.
C12_ReadIdempotent ==
    [][RepeatedRead =>
         /\ xl_out'.tlb_result = TLB_HIT
         /\ cache_out'.result = CACHE_HIT
         /\ xl_out'.paddr = xl_out.paddr
         /\ ~xl_out'.faulted
         /\ TlbContent(tlb') = TlbContent(tlb)
         /\ pt' = [pt EXCEPT !.pt_accesses = @ + 1]
         /\ CacheContent(single_cache') = CacheContent(single_cache)
         /\ cache_out'.writebacks = << >>
         /\ tlb'.accesses = tlb.accesses + 1 /\ tlb'.hits = tlb.hits + 1
         /\ tlb'.misses = tlb.misses
         /\ single_cache'.accesses = single_cache.accesses + 1
         /\ single_cache'.hits = single_cache.hits + 1
         /\ single_cache'.misses = single_cache.misses
         /\ single_cache'.reads = single_cache.reads + 1
         /\ single_cache'.read_hits = single_cache.read_hits + 1
         /\ single_cache'.writes = single_cache.writes
         /\ single_cache'.write_hits = single_cache.write_hits]_vars

\* C12 witness: the last trace line read the address of the line before it
\* and hit in the TLB and in the cache, with every frame in use
C12_Witness ==
    /\ xl_out.prev = xl_out.vaddr
    /\ ~xl_out.is_write
    /\ xl_out.tlb_result = TLB_HIT
    /\ cache_out.result = CACHE_HIT
    /\ pt.free_page_list = NULL

\* ------------------------------------ the two-level cache used on its own
\* main() with task 4: tlb_init, pagetable_init, multilevel_cache_init
ConstructTask4(tlb_config, levels, num_levels) ==
    /\ args = NoArgs
    /\ config = SimConfig(tlb_config, DefaultCacheConfig, levels, num_levels)
    /\ pc = "trace"
    /\ output = NoOutput
    /\ tlb = tlb_init(tlb_config)
    /\ pt = pagetable_init
    /\ single_cache = NULL_cache
    /\ multi_cache = multilevel_cache_init(levels, num_levels)
    /\ multi_cache.num_levels # NULL_mlc.num_levels
    /\ ml_out = NoMlOut
    /\ tlb_out = NoTlbOut
    /\ cache_out = NoCacheOut
    /\ pt_out = NoPtOut
    /\ xl_out = NoXlOut
    /\ block_mru = << >>
    /\ written_since = {}
    /\ vpn_mru = << >>
    /\ log = << >>

\* the level configurations [L1, L2] as the array main() passes
Levels(l1, l2) == [i \in 0 .. 1 |-> IF i = 0 THEN l1 ELSE l2]

HierarchyConfigs ==
    { Levels([size |-> 4, block_size |-> 4, associativity |-> DIRECT_MAPPED],
             [size |-> 8, block_size |-> 4, associativity |-> FULLY_ASSOC]),
      Levels([size |-> 4, block_size |-> 4, associativity |-> FULLY_ASSOC],
             [size |-> 8, block_size |-> 4, associativity |-> DIRECT_MAPPED]),
      Levels([size |-> 8, block_size |-> 4, associativity |-> DIRECT_MAPPED],
             [size |-> 16, block_size |-> 4, associativity |-> TWO_WAY]),
      Levels([size |-> 8, block_size |-> 4, associativity |-> FULLY_ASSOC],
             [size |-> 16, block_size |-> 8, associativity |-> FULLY_ASSOC]),
      Levels([size |-> 8, block_size |-> 4, associativity |-> FULLY_ASSOC],
             [size |-> 16, block_size |-> 4, associativity |-> TWO_WAY]) }

MlAddrs == {0, 4, 8, 16}

InitML ==
    /\ \E h \in HierarchyConfigs : ConstructTask4(DefaultTlbConfig, h, 2)
    /\ script = << >>

\* multilevel_cache_access on the simulator's hierarchy
MlStep(addr, is_write) ==
    LET r == multilevel_cache_access(multi_cache, addr, is_write)
    IN /\ multi_cache' = r.mlc
       /\ ml_out' = [addr |-> addr, is_write |-> is_write, result |-> r.result,
                     results |-> r.results, calls |-> ml_out.calls + 1]

MultilevelAccess(addr, is_write) ==
    /\ ml_out.calls < MaxMlCalls
    /\ MlStep(addr, is_write)
    /\ UNCHANGED <<args, config, pc, output, tlb, pt, single_cache, tlb_out, cache_out, pt_out, xl_out, block_mru,
                   written_since, vpn_mru, script, log>>

NextML == \E addr \in MlAddrs, is_write \in BOOLEAN : MultilevelAccess(addr, is_write)

SpecML == InitML /\ [][NextML]_vars

\* a step in which multilevel_cache_access ran
MlStepTaken == ml_out'.calls # ml_out.calls

\* the block of addr is held by a valid line of the cache
Holds(cache, addr) ==
    BlockOf(cache, addr) \in Resident(cache, cache_get_index(cache, addr))

ScriptHierarchies ==
    { Levels([size |-> bs, block_size |-> bs, associativity |-> a1],
             [size |-> 2 * bs, block_size |-> bs, associativity |-> a2]) :
        bs \in {4, 8}, a1 \in {DIRECT_MAPPED, FULLY_ASSOC},
        a2 \in {DIRECT_MAPPED, FULLY_ASSOC, TWO_WAY} }

ScriptAddrs == {0, 4, 8, 16, 18}

\* the script X, Y, X over two distinct blocks
InitMlScript ==
    /\ \E h \in ScriptHierarchies : ConstructTask4(DefaultTlbConfig, h, 2)
    /\ \E X \in ScriptAddrs, Y \in ScriptAddrs :
         /\ Shr(X, log2_uint32(multi_cache.levels[0].block_size))
              # Shr(Y, log2_uint32(multi_cache.levels[0].block_size))
         /\ script = <<X, Y, X>>

MlScriptAccess(is_write) ==
    /\ Len(log) < Len(script)
    /\ MlStep(script[Len(log) + 1], is_write)
    /\ log' = Append(log, [result |-> ml_out'.result, results |-> ml_out'.results,
                           x_in_l1 |-> Holds(multi_cache'.levels[0], script[1]),
                           y_in_l1 |-> Holds(multi_cache'.levels[0], script[2]),
                           x_in_l2 |-> Holds(multi_cache'.levels[1], script[1]),
                           y_in_l2 |-> Holds(multi_cache'.levels[1], script[2])])
    /\ UNCHANGED <<args, config, pc, output, tlb, pt, single_cache, tlb_out, cache_out, pt_out, xl_out, block_mru,
                   written_since, vpn_mru, script>>

NextMlScript == \E is_write \in BOOLEAN : MlScriptAccess(is_write)

SpecMlScript == InitMlScript /\ [][NextMlScript]_vars

\* X and Y do not compete for one single-line set of L2
ScriptL2Room ==
    \/ multi_cache.levels[1].ways_per_set > 1
    \/ cache_get_index(multi_cache.levels[1], script[1])
         # cache_get_index(multi_cache.levels[1], script[2])

\* what the script X, Y, X does up to its second access, in every hierarchy
ScriptFirstTwo ==
    /\ Len(log) >= 1 => /\ log[1].results = <<CACHE_MISS, CACHE_MISS>>
                        /\ log[1].x_in_l1 /\ log[1].x_in_l2
    /\ Len(log) >= 2 => /\ log[2].results = <<CACHE_MISS, CACHE_MISS>>
                        /\ ~log[2].x_in_l1 /\ log[2].y_in_l1 /\ log[2].y_in_l2

\* C14 as stated: with L1 of one block and L2 of two blocks, X misses both
\* levels and is installed in both; Y misses both, evicts X from L1 only and
\* evicts nothing from L2; X again misses L1 and hits L2.
C14_Original ==
    /\ ScriptFirstTwo
    /\ Len(log) >= 2 => log[2].x_in_l2
    /\ Len(log) >= 3 => log[3].results = <<CACHE_MISS, CACHE_HIT>>

\* C14, amended: the second and third outcomes hold when X and Y do not map
\* to the same set of a direct-mapped L2 (L2 fully associative or 2-way, or X
\* and Y in different sets); in a direct-mapped L2 where they share the set,
\* Y evicts X from L2 as well and the third access misses both levels.
C14_ScriptXYX ==
    /\ ScriptFirstTwo
    /\ (Len(log) >= 2 /\ ScriptL2Room) => log[2].x_in_l2
    /\ (Len(log) >= 3 /\ ScriptL2Room) =>
          /\ log[3].results = <<CACHE_MISS, CACHE_HIT>>
          /\ log[3].result = CACHE_HIT_L2
    /\ (Len(log) >= 2 /\ ~ScriptL2Room) => ~log[2].x_in_l2
    /\ (Len(log) >= 3 /\ ~ScriptL2Room) =>
          /\ log[3].results = <<CACHE_MISS, CACHE_MISS>>
          /\ log[3].result = CACHE_MISS_ALL_LEVELS

\* C14 witness: the script has run to its end in a fully associative L2 and
\* its last access was served by L2
C14_Witness ==
    /\ Len(log) = 3
    /\ multi_cache.levels[1].associativity = FULLY_ASSOC
    /\ multi_cache.levels[0].ways_per_set * multi_cache.levels[0].num_sets = 1
    /\ log[2].x_in_l2 /\ ~log[2].x_in_l1
    /\ log[3].result = CACHE_HIT_L2

\* C15: after every multilevel_cache_access(addr, is_write) the block of addr
\* is resident in L1; after an L2 hit it is resident in L2 and (promoted) in
\* L1, and after an all-levels miss it is installed in both L2 and L1.
C15_InstalledInL1 ==
    ml_out.calls > 0 =>
        /\ Holds(multi_cache.levels[0], ml_out.addr)
        /\ ml_out.result \in {CACHE_HIT_L1, CACHE_HIT_L2, CACHE_MISS_ALL_LEVELS}
        /\ ml_out.result \in {CACHE_HIT_L2, CACHE_MISS_ALL_LEVELS} =>
              Holds(multi_cache.levels[1], ml_out.addr)

\* C15 witness: an L2 hit has promoted a block into an L1 that had evicted it
C15_Witness ==
    /\ ml_out.result = CACHE_HIT_L2
    /\ Holds(multi_cache.levels[0], ml_out.addr)
    /\ multi_cache.levels[0].misses >= 3
    /\ multi_cache.levels[1].misses >= 2

\* C16: level_accesses[0] stays 0 while L1's own accesses counter is the
\* number of multilevel_cache_access calls; level_accesses[1], L2's own
\* accesses counter and L1's misses counter are equal.
C16_LevelAccesses ==
    /\ multi_cache.level_accesses[0] = 0
    /\ multi_cache.levels[0].accesses = ml_out.calls
    /\ multi_cache.level_accesses[1] = multi_cache.levels[1].accesses
    /\ multi_cache.level_accesses[1] = multi_cache.levels[0].misses

\* C16 witness: L1 has hit and missed, and L2 was accessed on the misses only
C16_Witness ==
    /\ ml_out.calls = MaxMlCalls
    /\ multi_cache.levels[0].hits > 0
    /\ multi_cache.level_accesses[1] > 1
    /\ multi_cache.level_accesses[1] < multi_cache.levels[0].accesses
    /\ multi_cache.level_accesses[0] = 0

\* C17 as stated: an access that misses L1 and hits L2 returns the result
\* code CACHE_MISS_L1_HIT_L2.
C17_Original ==
    ml_out.results = <<CACHE_MISS, CACHE_HIT>> => ml_out.result = CACHE_MISS_L1_HIT_L2

\* ------------------------------------------------ the TLB used on its own
\* The calls translate_address makes on the TLB, made one at a time, and its
\* TLB-miss path, which brings the page in and inserts the translation.
TlbConfigs ==
    { [num_entries |-> 2, associativity |-> DIRECT_MAPPED],
      [num_entries |-> 2, associativity |-> FULLY_ASSOC],
      [num_entries |-> 4, associativity |-> TWO_WAY] }

TlbVpns == {0, 1, 2}

InitTLB ==
    /\ \E tc \in TlbConfigs : Construct(tc, DefaultCacheConfig)
    /\ script = << >>

TlbLookup(vpn) ==
    /\ tlb_out.calls < MaxTlbCalls
    /\ LET r == tlb_lookup(tlb, vpn)
       IN /\ tlb' = r.tlb
          /\ tlb_out' = [op |-> "lookup", vpn |-> vpn, ppn |-> r.ppn, result |-> r.result,
                         calls |-> tlb_out.calls + 1]
    /\ UNCHANGED <<args, config, pc, output, pt, single_cache, multi_cache, ml_out, cache_out, pt_out, xl_out,
                   block_mru, written_since, vpn_mru, script, log>>

TlbInsert(vpn, ppn) ==
    /\ tlb_out.calls < MaxTlbCalls
    /\ tlb' = tlb_insert(tlb, vpn, ppn)
    /\ tlb_out' = [op |-> "insert", vpn |-> vpn, ppn |-> ppn, result |-> NULL,
                   calls |-> tlb_out.calls + 1]
    /\ UNCHANGED <<args, config, pc, output, pt, single_cache, multi_cache, ml_out, cache_out, pt_out, xl_out,
                   block_mru, written_since, vpn_mru, script, log>>

TlbSetDirty(vpn) ==
    /\ tlb_out.calls < MaxTlbCalls
    /\ tlb' = tlb_set_dirty(tlb, vpn)
    /\ tlb_out' = [op |-> "set_dirty", vpn |-> vpn, ppn |-> NULL, result |-> NULL,
                   calls |-> tlb_out.calls + 1]
    /\ UNCHANGED <<args, config, pc, output, pt, single_cache, multi_cache, ml_out, cache_out, pt_out, xl_out,
                   block_mru, written_since, vpn_mru, script, log>>

\* translate_address after a TLB miss: pagetable_lookup, the fault handler if
\* the page is absent, tlb_insert
TlbFillWith(r, vpn) ==
    /\ tlb' = r.tlb
    /\ pt' = r.pt
    /\ tlb_out' = [op |-> "fill", vpn |-> vpn, ppn |-> r.ppn, result |-> r.pt_result,
                   calls |-> tlb_out.calls + 1]

TlbFill(vpn) ==
    /\ tlb_out.calls < MaxTlbCalls
    /\ TlbEntryOf(tlb, vpn) = NULL
    /\ TlbFillWith(translate_tlb_miss(tlb, pagetable_lookup(pt, vpn), vpn), vpn)
    /\ UNCHANGED <<args, config, pc, output, single_cache, multi_cache, ml_out, cache_out, pt_out, xl_out,
                   block_mru, written_since, vpn_mru, script, log>>

NextTLB ==
    \/ \E vpn \in TlbVpns : TlbLookup(vpn)
    \/ \E vpn \in TlbVpns, ppn \in 0 .. NUM_PHYSICAL_PAGES - 1 : TlbInsert(vpn, ppn)
    \/ \E vpn \in TlbVpns : TlbSetDirty(vpn)
    \/ \E vpn \in TlbVpns : TlbFill(vpn)

SpecTLB == InitTLB /\ [][NextTLB]_vars

\* a step in which tlb_set_dirty ran
SetDirtyStepTaken == tlb_out'.calls # tlb_out.calls /\ tlb_out'.op = "set_dirty"

\* the VPN that entry i of set s stands for: its tag with the set index
EntryVpn(t, s, i) == Shl32(t.sets[s].entries[i].vpn, t.index_bits) + s

\* C18: tlb_set_dirty(vpn) sets the dirty bit of the valid entry that holds
\* vpn, if there is one, and changes nothing else: no other dirty bit, no
\* valid bit, tag or PPN, no recency link or list end, no geometry field and
\* no counter; without such an entry the TLB is left exactly as it was.
C18_SetDirtyFrame ==
    [][SetDirtyStepTaken =>
         /\ \A s \in 0 .. tlb.num_sets - 1 :
              /\ tlb'.sets[s].lru_head = tlb.sets[s].lru_head
              /\ tlb'.sets[s].lru_tail = tlb.sets[s].lru_tail
              /\ tlb'.sets[s].num_ways = tlb.sets[s].num_ways
              /\ \A i \in 0 .. tlb.ways_per_set - 1 :
                   /\ tlb'.sets[s].entries[i].valid = tlb.sets[s].entries[i].valid
                   /\ tlb'.sets[s].entries[i].vpn = tlb.sets[s].entries[i].vpn
                   /\ tlb'.sets[s].entries[i].ppn = tlb.sets[s].entries[i].ppn
                   /\ tlb'.sets[s].entries[i].prev = tlb.sets[s].entries[i].prev
                   /\ tlb'.sets[s].entries[i].next = tlb.sets[s].entries[i].next
                   /\ tlb'.sets[s].entries[i].dirty =
                        (\/ tlb.sets[s].entries[i].dirty
                         \/ /\ tlb.sets[s].entries[i].valid
                            /\ EntryVpn(tlb, s, i) = tlb_out'.vpn)
         /\ [tlb' EXCEPT !.sets = tlb.sets] = tlb
         /\ (\A s \in 0 .. tlb.num_sets - 1 : \A i \in 0 .. tlb.ways_per_set - 1 :
               ~(tlb.sets[s].entries[i].valid /\ EntryVpn(tlb, s, i) = tlb_out'.vpn))
              => tlb' = tlb
    ]_vars

\* C18 witness: tlb_set_dirty has marked a resident entry while another
\* valid entry of the TLB stays clean
C18_Witness ==
    /\ tlb_out.op = "set_dirty"
    /\ TlbEntryOf(tlb, tlb_out.vpn) # NULL
    /\ tlb.sets[get_tlb_index(tlb, tlb_out.vpn)].entries[TlbEntryOf(tlb, tlb_out.vpn)].dirty
    /\ \E s \in 0 .. tlb.num_sets - 1 : \E i \in 0 .. tlb.ways_per_set - 1 :
         tlb.sets[s].entries[i].valid /\ ~tlb.sets[s].entries[i].dirty

\* a step in which pagetable_set_dirty ran on its own
PtSetDirtyStepTaken == pt_out'.op = "set_dirty" /\ pt_out.op # "set_dirty"

\* C19: pagetable_set_dirty(vpn) sets page_table[vpn].dirty when the entry is
\* present and changes nothing at all when it is not, and it touches no other
\* entry, list or counter; in every reachable state an entry that is not
\* present is not dirty.
C19_DirtyOnlyIfPresent ==
    /\ [](\A v \in TraceVpns : ~pt.page_table[v].present => ~pt.page_table[v].dirty)
    /\ [][PtSetDirtyStepTaken =>
            /\ ~pt.page_table[pt_out'.vpn].present => pt' = pt
            /\ pt.page_table[pt_out'.vpn].present =>
                 /\ pt'.page_table[pt_out'.vpn].dirty
                 /\ pt'.page_table[pt_out'.vpn].present
                 /\ pt'.page_table[pt_out'.vpn].ppn = pt.page_table[pt_out'.vpn].ppn
            /\ \A v \in TraceVpns \ {pt_out'.vpn} : pt'.page_table[v] = pt.page_table[v]
            /\ [pt' EXCEPT !.page_table = pt.page_table] = pt
       ]_vars

\* C19 witness: pagetable_set_dirty has just been called for an entry that is
\* not present, after a dirty page was evicted and its entry left clean
C19_Witness ==
    /\ pt_out.op = "set_dirty"
    /\ ~pt.page_table[pt_out.vpn].present
    /\ ~pt.page_table[pt_out.vpn].dirty
    /\ pt.page_faults_dirty > 0
    /\ \E v \in TraceVpns : pt.page_table[v].present /\ pt.page_table[v].dirty

\* C20 as stated: tlb_set_dirty(tlb, vpn) marks the TLB entry of vpn dirty and
\* also sets the dirty bit of the corresponding page-table entry.
C20_Original ==
    (/\ tlb_out.op = "set_dirty"
     /\ TlbEntryOf(tlb, tlb_out.vpn) # NULL
     /\ pt.page_table[tlb_out.vpn].present)
    => /\ tlb.sets[get_tlb_index(tlb, tlb_out.vpn)]
             .entries[TlbEntryOf(tlb, tlb_out.vpn)].dirty
       /\ pt.page_table[tlb_out.vpn].dirty

\* ------------------------------ main(): from the command line to the trace
\* the statics of pagetable.c before pagetable_init has run
pagetable_zeroed ==
    [pagetable_init EXCEPT !.frame_table = [i \in 0 .. NUM_PHYSICAL_PAGES - 1 |-> NULL],
                           !.pages = [i \in 0 .. NUM_PHYSICAL_PAGES - 1 |-> create_page(i)],
                           !.free_page_list = NULL]

\* Values given to the options of the command lines the runs draw from.
ArgSizes == {NULL, 0, 4, 6, 8, 12, 16, 32}
ArgBlocks == {NULL, 2, 4, 8, 12, 16}
ArgAssocs == {NULL, 0, 1, 2, 3, 4, 5}
ArgEntries == {NULL, 1, 2, 3, 4, 8}
ArgFiles == {"", "missing.txt", "trace.txt"}

\* command lines of a single-level run
SingleLevelArgs ==
    { [NoArgs EXCEPT !.S = s, !.B = b, !.A = a, !.T = e, !.L = l, !.t = f] :
        s \in ArgSizes, b \in ArgBlocks, a \in ArgAssocs, e \in ArgEntries,
        l \in {NULL, 1, 2, 3, 4, 7}, f \in ArgFiles }

\* command lines that name the two levels of a hierarchy, or one of them
MultiLevelArgs ==
    { [NoArgs EXCEPT !.S1 = s1, !.S2 = s2, !.B1 = b1, !.B2 = b2, !.A1 = a1, !.A2 = a2,
                     !.T = e, !.t = "trace.txt"] :
        s1 \in {NULL, 4, 8, 16}, s2 \in {NULL, 4, 8, 12, 16}, b1 \in {NULL, 4, 8},
        b2 \in {NULL, 0, 4, 8}, a1 \in {NULL, 1, 3, 5}, a2 \in {NULL, 0, 2, 4},
        e \in {2, 4} }

\* command lines with an argument that is no option of the program
UnknownArgs ==
    { [NoArgs EXCEPT !.S = s, !.T = e, !.t = "trace.txt", !.unknown = TRUE] :
        s \in {NULL, 8}, e \in {NULL, 2} }

InitMain ==
    /\ args \in SingleLevelArgs \cup MultiLevelArgs \cup UnknownArgs
    /\ config = NULL_config
    /\ pc = "start"
    /\ output = NoOutput
    /\ tlb = NULL_tlb
    /\ pt = pagetable_zeroed
    /\ single_cache = NULL_cache
    /\ multi_cache = NULL_mlc
    /\ ml_out = NoMlOut
    /\ tlb_out = NoTlbOut
    /\ cache_out = NoCacheOut
    /\ pt_out = NoPtOut
    /\ xl_out = NoXlOut
    /\ block_mru = << >>
    /\ written_since = {}
    /\ vpn_mru = << >>
    /\ script = << >>
    /\ log = << >>

\* main() returning 1 after printing the lines `said` to stderr
ExitFailure(said) ==
    /\ pc' = "exit"
    /\ output' = [output EXCEPT !.stderr = @ \o said, !.exit = 1]

\* main(): config = parse_arguments(argc, argv) and the test of its result
ParseArguments ==
    /\ pc = "start"
    /\ config' = parse_arguments(args)
    /\ IF parse_arguments(args) = NULL_config
       THEN ExitFailure(<<"Invalid configuration", "Invalid configuration">>)
       ELSE pc' = "parsed" /\ UNCHANGED output
    /\ UNCHANGED <<tlb, pt, single_cache, multi_cache, ml_out, tlb_out, cache_out, pt_out,
                   xl_out, block_mru, written_since, vpn_mru, script, log, args>>

\* main(): if (!validate_config(config)) return 1
ValidateConfig ==
    /\ pc = "parsed"
    /\ IF validate_config(config)
       THEN pc' = "validated" /\ UNCHANGED output
       ELSE ExitFailure(<<"Invalid configuration">>)
    /\ UNCHANGED <<tlb, pt, single_cache, multi_cache, ml_out, tlb_out, cache_out, pt_out,
                   xl_out, block_mru, written_since, vpn_mru, script, log, args, config>>

\* main(): the cache of the task, once the TLB t and the page table exist
InitialiseCache(t) ==
    IF config.task = 4
    THEN LET m == multilevel_cache_init(config.levels, config.num_levels)
         IN IF m.num_levels = NULL_mlc.num_levels
            THEN /\ ExitFailure(<<"Failed to initialize multi-level cache">>)
                 /\ tlb' = NULL_tlb /\ pt' = pagetable_zeroed
                 /\ UNCHANGED <<single_cache, multi_cache>>
            ELSE /\ multi_cache' = m /\ tlb' = t /\ pt' = pagetable_init
                 /\ pc' = "trace"
                 /\ UNCHANGED <<single_cache, output>>
    ELSE LET c == cache_init(config.cache)
         IN IF c = NULL_cache
            THEN /\ ExitFailure(<<"Failed to initialize cache">>)
                 /\ tlb' = NULL_tlb /\ pt' = pagetable_zeroed
                 /\ UNCHANGED <<single_cache, multi_cache>>
            ELSE /\ single_cache' = c /\ tlb' = t /\ pt' = pagetable_init
                 /\ pc' = "trace"
                 /\ UNCHANGED <<multi_cache, output>>

\* main(): tlb_init, pagetable_init, the cache of the task, fopen of the
\* trace file (which validate_config found to exist)
Initialise ==
    /\ pc = "validated"
    /\ IF tlb_init(config.tlb) = NULL_tlb
       THEN /\ ExitFailure(<<"Failed to initialize TLB">>)
            /\ UNCHANGED <<tlb, pt, single_cache, multi_cache>>
       ELSE InitialiseCache(tlb_init(config.tlb))
    /\ UNCHANGED <<ml_out, tlb_out, cache_out, pt_out, xl_out, block_mru, written_since,
                   vpn_mru, script, log, args, config>>

NextMain == ParseArguments \/ ValidateConfig \/ Initialise

SpecMain == InitMain /\ [][NextMain]_vars

\* ------------------------------------------------------------------ C21
\* the blocks a cache of configuration cfg holds
Capacity(cfg) == cfg.size \div cfg.block_size

\* the geometry of the cache c built from configuration cfg
CacheGeometry(c, cfg) ==
    /\ c.num_sets * c.ways_per_set = Capacity(cfg)
    /\ c.offset_bits + c.index_bits + c.tag_bits = 32
    /\ cfg.associativity = DIRECT_MAPPED => c.ways_per_set = 1 /\ c.num_sets = Capacity(cfg)
    /\ cfg.associativity = FULLY_ASSOC =>
           c.num_sets = 1 /\ c.ways_per_set = Capacity(cfg) /\ c.index_bits = 0
    /\ cfg.associativity = TWO_WAY => c.ways_per_set = 2 /\ c.num_sets * 2 = Capacity(cfg)
    /\ cfg.associativity = FOUR_WAY => c.ways_per_set = 4 /\ c.num_sets * 4 = Capacity(cfg)

\* C21: for every configuration validate_config has accepted, cache_init
\* gives a cache with num_sets * ways_per_set = size / block_size (in whole
\* blocks), offset_bits + index_bits + tag_bits = 32, one way and capacity
\* sets when direct-mapped, one set, capacity ways and no index bits when
\* fully associative, N ways and capacity / N sets when N-way; and the TLB
\* main() builds has num_sets * ways_per_set = num_entries.
C21_Geometry ==
    /\ pc = "validated" =>
           IF config.num_levels = 0
           THEN CacheGeometry(cache_init(config.cache), config.cache)
           ELSE \A i \in 0 .. 1 : CacheGeometry(cache_init(config.levels[i]), config.levels[i])
    /\ pc = "trace" =>
           /\ config.task # 4 => CacheGeometry(single_cache, config.cache)
           /\ config.task = 4 =>
                  \A i \in 0 .. 1 : CacheGeometry(multi_cache.levels[i], config.levels[i])
           /\ tlb.num_sets * tlb.ways_per_set = config.tlb.num_entries

\* C21 witness: a validated four-way cache of two sets and a two-way TLB of
\* four sets have been constructed
C21_Witness ==
    /\ pc = "trace"
    /\ config.cache.associativity = FOUR_WAY /\ single_cache.num_sets = 2
    /\ config.tlb.associativity = TWO_WAY /\ tlb.num_sets = 4

\* ------------------------------------------------------------------ C22
\* C22: once pagetable_init has run, some frame is in the free list or in the
\* used list in every reachable state, and no call of pagetable_handle_fault
\* has taken the fatal "No pages available" exit.
C22_FatalUnreachable ==
    /\ pt.free_page_list # NULL \/ pt.used_page_list # NULL
    /\ ~pt_out.fatal

\* C22 witness: a page fault found the free list empty and was served by
\* evicting a frame of the used list
C22_Witness ==
    /\ pt_out.op = "handle_fault"
    /\ pt_out.victim # NULL
    /\ pt.free_page_list = NULL
    /\ pt.page_faults > NUM_PHYSICAL_PAGES

\* ---------------------- the trace loop over the 32-bit address space
\* Addresses of a trace beyond the 2^26 bytes that PAGE_TABLE_ENTRIES pages
\* cover: 0x04000000 (the first of them) and 0x7FFFF000.
HighVaddrs == {67108864, 2147479552}

\* one iteration of the trace loop for an address whose VPN indexes page_table
InRangeAccess(vaddr, is_write) ==
    /\ pc = "trace"
    /\ get_vpn(vaddr) < PAGE_TABLE_ENTRIES
    /\ ProcessAccess(vaddr, is_write)

\* One iteration for an address whose VPN is no index of page_table: after
\* tlb_lookup has missed, pagetable_lookup reads page_table[vpn] beyond the
\* end of the array.  The behaviour is undefined from there on: the process
\* is killed or goes on over memory that is not the page table's, and the
\* model follows the run no further in either case.
OutOfRangeAccess(vaddr, is_write) ==
    /\ pc = "trace"
    /\ tlb.accesses < MaxTrace
    /\ ~xl_out.fatal
    /\ ~(get_vpn(vaddr) < PAGE_TABLE_ENTRIES)
    /\ tlb_lookup(tlb, get_vpn(vaddr)).result = TLB_MISS
    /\ tlb' = tlb_lookup(tlb, get_vpn(vaddr)).tlb
    /\ xl_out' = [NoXlOut EXCEPT !.vaddr = vaddr, !.prev = xl_out.vaddr,
                                 !.is_write = is_write, !.tlb_result = TLB_MISS,
                                 !.vpn = get_vpn(vaddr)]
    /\ pc' \in {"killed", "undefined"}
    /\ UNCHANGED <<pt, single_cache, multi_cache, ml_out, tlb_out, cache_out, pt_out,
                   block_mru, written_since, vpn_mru, script, log, args, config, output>>

NextTrace32 ==
    \/ \E vaddr \in TraceVaddrs, is_write \in BOOLEAN : InRangeAccess(vaddr, is_write)
    \/ \E vaddr \in HighVaddrs, is_write \in BOOLEAN : OutOfRangeAccess(vaddr, is_write)

SpecTrace32 == Init /\ [][NextTrace32]_vars

\* ------------------------------------------------------------------ C23
\* C23 as stated: the VPN that translate_address passes to the page table is
\* an index of page_table, i.e. below PAGE_TABLE_ENTRIES, for every address
\* of the trace.
C23_Original ==
    xl_out.vpn # NULL => xl_out.vpn \in 0 .. PAGE_TABLE_ENTRIES - 1

\* ------------------------------------- the trace loop over a trace file
\* A trace file is the sequence of its lines "<mode> <address>"; a line is
\* the mode character, whether the address starts with "0x", and the value
\* of its hexadecimal digits.  script holds the file, log the entries the
\* loop has processed; the file position is the number of lines consumed.
EOF_items == -1

\* fscanf that takes the address with or without its "0x"
fscanf_trace_any_number(file, pos) ==
    IF pos >= Len(file) THEN [items |-> EOF_items, mode |-> "", vaddr |-> NULL]
    ELSE [items |-> 2, mode |-> file[pos + 1].mode, vaddr |-> file[pos + 1].digits]

\* fscanf(trace, " %c 0x%x", &mode, &vaddr) at line pos + 1 of the file: the
\* number of items assigned, and their values
fscanf_trace(file, pos) ==
    IF pos >= Len(file) THEN [items |-> EOF_items, mode |-> "", vaddr |-> NULL]
    ELSE [items |-> IF file[pos + 1].hex_prefix THEN 2 ELSE 1,
          mode |-> file[pos + 1].mode, vaddr |-> file[pos + 1].digits]

\* Lines a trace file of the model is made of; the last has no "0x".
TraceLines ==
    { [mode |-> "R", hex_prefix |-> TRUE, digits |-> 0],
      [mode |-> "W", hex_prefix |-> TRUE, digits |-> 4100],
      [mode |-> "R", hex_prefix |-> TRUE, digits |-> 8192],
      [mode |-> "w", hex_prefix |-> TRUE, digits |-> 0],
      [mode |-> "R", hex_prefix |-> FALSE, digits |-> 4100] }

\* Number of lines of a trace file.
MaxFileLen == 3

TraceFiles == UNION { [1 .. n -> TraceLines] : n \in 0 .. MaxFileLen }

TraceFileConfigs ==
    { [tlb |-> [num_entries |-> 2, associativity |-> DIRECT_MAPPED],
       cache |-> [size |-> 8, block_size |-> 4, associativity |-> FULLY_ASSOC]],
      [tlb |-> [num_entries |-> 2, associativity |-> FULLY_ASSOC],
       cache |-> [size |-> 8, block_size |-> 4, associativity |-> DIRECT_MAPPED]] }

InitTraceFile ==
    /\ \E sc \in TraceFileConfigs : Construct(sc.tlb, sc.cache)
    /\ script \in TraceFiles

\* the statistics that tlb_print_stats, pagetable_print_stats and
\* cache_print_stats print, in the order printed
StatsOf(t, p, c) ==
    [tlb |-> <<t.accesses, t.hits, t.misses>>,
     pagetable |-> <<p.pt_accesses, p.page_faults, p.page_faults_dirty>>,
     cache |-> <<c.accesses, c.hits, c.misses, c.reads, c.read_hits, c.writes, c.write_hits>>]

\* the body of the trace loop for the entry r that fscanf has read
TraceEntry(r) ==
    /\ AccessTranslated(translate_address(tlb, pt, r.vaddr, r.mode \in {"W", "w"}),
                        r.vaddr, r.mode \in {"W", "w"})
    /\ log' = Append(log, [mode |-> r.mode, vaddr |-> r.vaddr])
    /\ UNCHANGED <<args, config, pc, output, multi_cache, ml_out, tlb_out, script>>

\* one iteration of while (fscanf(...) == 2)
ReadEntry ==
    /\ pc = "trace"
    /\ ~xl_out.fatal
    /\ fscanf_trace(script, Len(log)).items = 2
    /\ TraceEntry(fscanf_trace(script, Len(log)))

\* the loop's exit: fscanf did not assign two items; the statistics are
\* printed and main returns 0
EndOfTrace ==
    /\ pc = "trace"
    /\ ~xl_out.fatal
    /\ fscanf_trace(script, Len(log)).items # 2
    /\ pc' = "exit"
    /\ output' = [output EXCEPT !.stats = StatsOf(tlb, pt, single_cache), !.exit = 0]
    /\ UNCHANGED <<tlb, pt, single_cache, multi_cache, ml_out, tlb_out, cache_out, pt_out,
                   xl_out, block_mru, written_since, vpn_mru, script, log, args, config>>

NextTraceFile == ReadEntry \/ EndOfTrace

SpecTraceFile == InitTraceFile /\ [][NextTraceFile]_vars

\* ------------------------------------------------------------------ C24
\* whether a line of the file is a well-formed trace entry
WellFormed(line) == line.hex_prefix

\* the number of lines before the first one that is not well formed
RECURSIVE GoodPrefixLen(_, _)
GoodPrefixLen(file, i) ==
    IF i > Len(file) \/ ~WellFormed(file[i]) THEN i - 1 ELSE GoodPrefixLen(file, i + 1)

\* translate_address and cache_access applied to the first n lines of the
\* file in order, from the state st of TLB, page table and cache
RECURSIVE RunPrefix(_, _, _)
RunLine(st, line) ==
    LET x == translate_address(st.tlb, st.pt, line.digits, line.mode \in {"W", "w"})
    IN [tlb |-> x.tlb, pt |-> x.pt,
        cache |-> cache_access(st.cache, x.paddr, line.mode \in {"W", "w"}).cache]

RunPrefix(st, file, n) ==
    IF n = 0 THEN st ELSE RunLine(RunPrefix(st, file, n - 1), file[n])

\* the state main() has constructed before the first line is read
Constructed ==
    [tlb |-> tlb_init(config.tlb), pt |-> pagetable_init, cache |-> cache_init(config.cache)]

\* the statistics of the run that processes the first n lines of the file
PrefixStats(n) ==
    LET st == RunPrefix(Constructed, script, n)
    IN StatsOf(st.tlb, st.pt, st.cache)

\* the entries of the first n lines
PrefixEntries(n) == [i \in 1 .. n |-> [mode |-> script[i].mode, vaddr |-> script[i].digits]]

RawAssocs == 0 .. 5

\* Cache configurations with at least one set whatever the associativity.
RawCacheConfigs ==
    { [size |-> s, block_size |-> 4, associativity |-> a] : s \in {16, 20, 32}, a \in RawAssocs }

RawTlbConfigs ==
    { [num_entries |-> e, associativity |-> a] : e \in {4, 6}, a \in RawAssocs }

\* the configs argument of multilevel_cache_init: an array of two
\* configurations, or the null pointer
RawLevelConfigs ==
    { Levels([size |-> 16, block_size |-> 4, associativity |-> a1],
             [size |-> s2, block_size |-> 4, associativity |-> a2]) :
        a1 \in {0, 1, 2}, s2 \in {8, 16}, a2 \in {2, 3, 5} }
    \cup {NULL_configs}

InitConstruct ==
    /\ config \in { [task |-> 0, cache |-> c, levels |-> l, num_levels |-> n, tlb |-> t,
                     trace_file |-> ""] :
                      c \in RawCacheConfigs, t \in RawTlbConfigs, l \in RawLevelConfigs,
                      n \in 1 .. 3 }
    /\ args = NoArgs
    /\ pc = "start"
    /\ output = NoOutput
    /\ tlb = NULL_tlb
    /\ pt = pagetable_zeroed
    /\ single_cache = NULL_cache
    /\ multi_cache = NULL_mlc
    /\ ml_out = NoMlOut
    /\ tlb_out = NoTlbOut
    /\ cache_out = NoCacheOut
    /\ pt_out = NoPtOut
    /\ xl_out = NoXlOut
    /\ block_mru = << >>
    /\ written_since = {}
    /\ vpn_mru = << >>
    /\ script = << >>
    /\ log = << >>

\* whether the constructor of that name has been called
Called(name) == \E i \in 1 .. Len(log) : log[i] = name

CacheInit ==
    /\ ~Called("cache_init")
    /\ single_cache' = cache_init(config.cache)
    /\ log' = Append(log, "cache_init")
    /\ UNCHANGED <<tlb, pt, multi_cache, ml_out, tlb_out, cache_out, pt_out, xl_out,
                   block_mru, written_since, vpn_mru, script, args, config, pc, output>>

TlbInit ==
    /\ ~Called("tlb_init")
    /\ tlb' = tlb_init(config.tlb)
    /\ log' = Append(log, "tlb_init")
    /\ UNCHANGED <<single_cache, pt, multi_cache, ml_out, tlb_out, cache_out, pt_out, xl_out,
                   block_mru, written_since, vpn_mru, script, args, config, pc, output>>

MultilevelCacheInit ==
    /\ ~Called("multilevel_cache_init")
    /\ multi_cache' = multilevel_cache_init(config.levels, config.num_levels)
    /\ log' = Append(log, "multilevel_cache_init")
    /\ UNCHANGED <<single_cache, tlb, pt, ml_out, tlb_out, cache_out, pt_out, xl_out,
                   block_mru, written_since, vpn_mru, script, args, config, pc, output>>

NextConstruct == CacheInit \/ TlbInit \/ MultilevelCacheInit

SpecConstruct == InitConstruct /\ [][NextConstruct]_vars

\* ------------------------------------------------------------------ C25
\* the four associativity codes
AssocCodes == {DIRECT_MAPPED, FULLY_ASSOC, TWO_WAY, FOUR_WAY}

\* whether some level of the configs array fails to construct
SomeLevelFails(configs) == \E i \in 0 .. 1 : cache_init(configs[i]) = NULL_cache

WayCount(associativity) ==
    CASE associativity = TWO_WAY -> 2
      [] associativity = FOUR_WAY -> 4
      [] OTHER -> 1

\* C26 as stated: cache_init has failed whenever size is not evenly
\* divisible by block_size times the way count of the associativity, and
\* tlb_init whenever num_entries is not evenly divisible by the way count.
C26_Original ==
    /\ ( /\ Called("cache_init")
         /\ config.cache.size
              % (config.cache.block_size * WayCount(config.cache.associativity)) # 0 )
       => single_cache = NULL_cache
    /\ ( /\ Called("tlb_init")
         /\ config.tlb.num_entries % WayCount(config.tlb.associativity) # 0 )
       => tlb = NULL_tlb

\* ------------------------------------------------------------------ C27
\* whether the value given to an associativity option is none of 1, 2, 3, 4
InvalidCode(value) == value # NULL /\ value \notin 1 .. 4

\* whether the command line carries an invalid associativity code
InvalidCodeGiven ==
    InvalidCode(args.A) \/ InvalidCode(args.A1) \/ InvalidCode(args.A2) \/ InvalidCode(args.L)

\* C27 as stated: with an invalid associativity code on the command line the
\* program never gets to its trace; it exits, and has then reported
\* "Invalid configuration".
C27_Original ==
    InvalidCodeGiven =>
        /\ pc # "trace"
        /\ pc = "exit" => \E i \in 1 .. Len(output.stderr) :
                              output.stderr[i] = "Invalid configuration"

\* ------------------------------------------------------------------ C28
\* the cache configurations validate_config looks at: the single cache, or
\* the levels of the hierarchy
CheckedCaches(cfg) ==
    IF cfg.num_levels = 0 THEN {cfg.cache} ELSE {cfg.levels[i] : i \in 0 .. cfg.num_levels - 1}

\* the powers of two a TLB of the model can have as its number of entries
PowersOfTwo == {1, 2, 4, 8, 16}

\* the conditions the claim lists, for one cache configuration
ListedCacheFault(c) ==
    \/ c.block_size < 4 \/ c.block_size % 4 # 0
    \/ c.size = 0 \/ c.size % 4 # 0
    \/ c.associativity = TWO_WAY /\ c.block_size > 0 /\ c.size % (c.block_size * 2) # 0
    \/ c.associativity = FOUR_WAY /\ c.block_size > 0 /\ c.size % (c.block_size * 4) # 0

\* the conditions the claim lists, for a whole configuration
ListedFault(cfg) ==
    \/ \E c \in CheckedCaches(cfg) : ListedCacheFault(c)
    \/ cfg.tlb.num_entries < 2 \/ cfg.tlb.num_entries \notin PowersOfTwo
    \/ cfg.tlb.associativity = FOUR_WAY /\ cfg.tlb.num_entries % 4 # 0
    \/ cfg.num_levels >= 2 /\ cfg.levels[1].size < cfg.levels[0].size

\* a cache whose block is larger than the cache
BlockExceedsSize(cfg) == \E c \in CheckedCaches(cfg) : c.block_size > c.size

\* main() has called validate_config, on a configuration whose trace file exists
ValidateCalled ==
    /\ pc \notin {"start", "parsed"}
    /\ config # NULL_config
    /\ file_exists(config.trace_file)

\* validate_config returned false: main() has returned 1 after the one
\* line validate_config prints
ValidateReturnedFalse == pc = "exit" /\ output.stderr = <<"Invalid configuration">>

\* no cache, TLB or page-table state has been constructed
NothingConstructed ==
    /\ tlb = NULL_tlb /\ single_cache = NULL_cache /\ multi_cache = NULL_mlc
    /\ pt = pagetable_zeroed

\* C28 as stated: validate_config returns false, with nothing constructed,
\* for each configuration with one of the listed faults, and true for every
\* other configuration whose trace file exists.
C28_Original ==
    ValidateCalled =>
        /\ ValidateReturnedFalse <=> ListedFault(config)
        /\ ValidateReturnedFalse => NothingConstructed

\* C28 amended: the same, with "block size greater than the cache size"
\* added to the list of faults (of the single cache, or of a level of the
\* hierarchy, to which the cache conditions apply in a multi-level run).
C28_Amended ==
    ValidateCalled =>
        /\ ValidateReturnedFalse <=> (ListedFault(config) \/ BlockExceedsSize(config))
        /\ ValidateReturnedFalse => NothingConstructed

\* C28 witness: validate_config has returned false for a configuration
\* whose only fault is a block larger than the cache
C28_Witness ==
    /\ ValidateCalled
    /\ ValidateReturnedFalse
    /\ ~ListedFault(config)
    /\ BlockExceedsSize(config)

\* ------------------------------------------------------------------ C29
\* C29 as stated: when neither -B nor -A is given, parse_arguments leaves
\* the single-level cache with block size 16 and associativity 2 (fully
\* associative), and detect_task has returned 1 for that configuration.
C29_Original ==
    ( /\ pc # "start"
      /\ config # NULL_config
      /\ config.num_levels = 0
      /\ args.B = NULL /\ args.A = NULL )
    => /\ config.cache.block_size = 16
       /\ config.cache.associativity = FULLY_ASSOC
       /\ config.task = 1

\* ------------------------------------------------------------------ C30
\* the invalid ways of a cache set, and of a TLB set
CacheInvalidWays(set) == {w \in 0 .. set.num_ways - 1 : ~set.lines[w].valid}

TlbInvalidWays(set) == {w \in 0 .. set.num_ways - 1 : ~set.entries[w].valid}

\* the lowest index of a non-empty set of ways
LowestOf(S) == CHOOSE i \in S : \A j \in S : i <= j

\* a step in which cache_access missed
CacheMissStep == single_cache'.misses # single_cache.misses

\* a step in which tlb_insert installed a new translation
TlbInsertStep == tlb'.misses # tlb.misses /\ ~xl_out'.fatal

\* the way cache_access installs the missing block in: the lowest invalid
\* way of the set, every valid line staying as it was, or the victim of a
\* full set
CacheVictimRule(set, after, way) ==
    /\ after.lines[way].valid
    /\ IF CacheInvalidWays(set) # {}
       THEN /\ way = LowestOf(CacheInvalidWays(set))
            /\ \A w \in 0 .. set.num_ways - 1 :
                   set.lines[w].valid =>
                       after.lines[w].valid /\ after.lines[w].tag = set.lines[w].tag
       ELSE way = IF set.num_ways = 1 THEN 0 ELSE set.lru_tail

\* the same for the entry tlb_insert installs a new translation in
TlbVictimRule(set, after, way) ==
    /\ after.entries[way].valid
    /\ IF TlbInvalidWays(set) # {}
       THEN /\ way = LowestOf(TlbInvalidWays(set))
            /\ \A w \in 0 .. set.num_ways - 1 :
                   set.entries[w].valid =>
                       /\ after.entries[w].valid
                       /\ after.entries[w].vpn = set.entries[w].vpn
                       /\ after.entries[w].ppn = set.entries[w].ppn
       ELSE way = IF set.num_ways = 1 THEN 0 ELSE set.lru_tail

\* the valid ways of every cache set and of every TLB set are the first ones
FilledInIndexOrder ==
    /\ \A i \in 0 .. single_cache.num_sets - 1 :
           \A w \in 0 .. single_cache.ways_per_set - 1 :
               single_cache.sets[i].lines[w].valid =>
                   \A u \in 0 .. w - 1 : single_cache.sets[i].lines[u].valid
    /\ \A i \in 0 .. tlb.num_sets - 1 :
           \A w \in 0 .. tlb.ways_per_set - 1 :
               tlb.sets[i].entries[w].valid =>
                   \A u \in 0 .. w - 1 : tlb.sets[i].entries[u].valid

\* what every step of the simulator does on a cache miss and on a TLB insert
VictimRules ==
    /\ CacheMissStep =>
           CacheVictimRule(single_cache.sets[cache_out'.index],
                           single_cache'.sets[cache_out'.index], cache_out'.way)
    /\ TlbInsertStep =>
           TlbVictimRule(tlb.sets[get_tlb_index(tlb, xl_out'.vpn)],
                         tlb'.sets[get_tlb_index(tlb, xl_out'.vpn)],
                         TlbEntryOf(tlb', xl_out'.vpn))

\* C30: a cache miss and a new TLB insert use the lowest-index invalid way of
\* the set if there is one, and then evict no valid entry; only in a full
\* set is the victim the sole way or the tail of the recency list; and so
\* the valid ways of a set are always its first ones (ways are filled in the
\* order 0, 1, 2, ...).
C30_InvalidFirst == []FilledInIndexOrder /\ [][VictimRules]_vars

\* C30 witness: a fully associative cache set has been filled and a third
\* block has then missed in it, and a single-way TLB set has been refilled
C30_Witness ==
    /\ single_cache.associativity = FULLY_ASSOC
    /\ single_cache.ways_per_set = 2
    /\ single_cache.misses >= 3
    /\ cache_out.result = CACHE_MISS
    /\ tlb.misses >= 3

\* ------------------------------ the cache and the TLB, each used on its own
\* a run drives cache_access on the cache or the TLB's functions on the TLB
InitStores == InitCache \/ InitTLB

NextStores ==
    \/ tlb_out.calls = 0 /\ NextCache
    \/ single_cache.accesses = 0 /\ NextTLB

SpecStores == InitStores /\ [][NextStores]_vars

\* no two valid lines of one cache set hold the same tag
CacheTagsUnique(cache) ==
    \A s \in 0 .. cache.num_sets - 1 : \A w1, w2 \in 0 .. cache.ways_per_set - 1 :
        (/\ w1 # w2
         /\ cache.sets[s].lines[w1].valid
         /\ cache.sets[s].lines[w2].valid)
        => cache.sets[s].lines[w1].tag # cache.sets[s].lines[w2].tag

\* no two valid entries of one TLB set hold the same tag
TlbTagsUnique(t) ==
    \A s \in 0 .. t.num_sets - 1 : \A w1, w2 \in 0 .. t.ways_per_set - 1 :
        (/\ w1 # w2
         /\ t.sets[s].entries[w1].valid
         /\ t.sets[s].entries[w2].valid)
        => t.sets[s].entries[w1].vpn # t.sets[s].entries[w2].vpn

\* what a TLB entry maps: everything but its recency links
Mapping(e) == [valid |-> e.valid, dirty |-> e.dirty, vpn |-> e.vpn, ppn |-> e.ppn]

\* a step in which tlb_insert ran for a page the TLB already held
ResidentInsert ==
    /\ tlb_out'.calls # tlb_out.calls
    /\ tlb_out'.op = "insert"
    /\ TlbEntryOf(tlb, tlb_out'.vpn) # NULL

\* tlb_insert of a resident page rewrote the PPN of its entry, kept the entry's
\* place, tag and dirty bit, made it the head of its set's list and left
\* every other entry's mapping alone
UpdatedInPlace(s, e) ==
    /\ TlbEntryOf(tlb', tlb_out'.vpn) = e
    /\ Mapping(tlb'.sets[s].entries[e]) =
           [Mapping(tlb.sets[s].entries[e]) EXCEPT !.ppn = tlb_out'.ppn]
    /\ (tlb.ways_per_set > 1 => tlb'.sets[s].lru_head = e)
    /\ \A s2 \in 0 .. tlb.num_sets - 1 : \A w \in 0 .. tlb.ways_per_set - 1 :
           (s2 # s \/ w # e)
           => Mapping(tlb'.sets[s2].entries[w]) = Mapping(tlb.sets[s2].entries[w])

\* C31: no cache set ever has two valid lines with the same tag and no TLB
\* set two valid entries with the same tag; tlb_insert of a VPN that is
\* already resident updates that entry's PPN in place, keeping its dirty bit
\* and making it most recently used, instead of filling a second way.
C31_TagUnique ==
    /\ [](CacheTagsUnique(single_cache) /\ TlbTagsUnique(tlb))
    /\ [][ResidentInsert =>
             UpdatedInPlace(get_tlb_index(tlb, tlb_out'.vpn),
                            TlbEntryOf(tlb, tlb_out'.vpn))]_vars

\* tlb_insert has just given a new frame to a resident dirty page in a set
\* with a second valid entry
C31_Witness ==
    /\ tlb_out.op = "insert"
    /\ tlb.ways_per_set > 1
    /\ TlbEntryOf(tlb, tlb_out.vpn) # NULL
    /\ LET s == get_tlb_index(tlb, tlb_out.vpn)
       IN /\ tlb.sets[s].entries[TlbEntryOf(tlb, tlb_out.vpn)].dirty
          /\ \A w \in 0 .. tlb.ways_per_set - 1 : tlb.sets[s].entries[w].valid

\* the nodes reached from head through next form a doubly linked list: no node
\* comes twice, the head has no predecessor, the last node has no successor
\* and each node's prev is the node before it
Linked(nodes, head, q) ==
    /\ Cardinality(SeqRange(q)) = Len(q)
    /\ Len(q) <= Cardinality(DOMAIN nodes)
    /\ (head # NULL => nodes[head].prev = NULL)
    /\ \A i \in 1 .. Len(q) - 1 : nodes[q[i + 1]].prev = q[i]

\* the recency list of a set of n >= 2 ways runs from lru_head through every
\* way exactly once and ends at lru_tail
RecencyListIntact(nodes, head, tail, n) ==
    LET q == ListFrom(nodes, head, n + 1)
    IN /\ Linked(nodes, head, q)
       /\ SeqRange(q) = 0 .. n - 1
       /\ q[Len(q)] = tail
       /\ nodes[tail].next = NULL

CacheListsIntact(cache) ==
    cache.ways_per_set >= 2 =>
        \A s \in 0 .. cache.num_sets - 1 :
            RecencyListIntact(cache.sets[s].lines, cache.sets[s].lru_head,
                              cache.sets[s].lru_tail, cache.ways_per_set)

TlbListsIntact(t) ==
    t.ways_per_set >= 2 =>
        \A s \in 0 .. t.num_sets - 1 :
            RecencyListIntact(t.sets[s].entries, t.sets[s].lru_head,
                              t.sets[s].lru_tail, t.ways_per_set)

\* the way the last access hit or installed is the head of its set's list
LastTouchedIsHead ==
    /\ (cache_out.way # NULL /\ single_cache.ways_per_set >= 2)
       => single_cache.sets[cache_out.index].lru_head = cache_out.way
    /\ (xl_out.vpn # NULL /\ tlb.ways_per_set >= 2)
       => /\ TlbEntryOf(tlb, xl_out.vpn) # NULL
          /\ tlb.sets[get_tlb_index(tlb, xl_out.vpn)].lru_head = TlbEntryOf(tlb, xl_out.vpn)

\* C32: in every cache and TLB set with two or more ways the list from
\* lru_head through next visits every way exactly once and ends at lru_tail,
\* prev is the inverse of next, the head has no prev and the tail no next,
\* and the way touched last (hit or install) is lru_head; the free and the
\* used page lists are well-formed doubly linked lists in the same sense.
C32_ListsIntact ==
    /\ CacheListsIntact(single_cache)
    /\ TlbListsIntact(tlb)
    /\ LastTouchedIsHead
    /\ Linked(pt.pages, pt.free_page_list, FreeList)
    /\ Linked(pt.pages, pt.used_page_list, UsedList)

\* a multi-way TLB set and a two-way cache set have both been reordered (the
\* last way leads the TLB set, way 1 the cache set, way 0 is the tail of
\* both) and every frame is in the used list after an eviction
C32_Witness ==
    /\ tlb.ways_per_set >= 2 /\ single_cache.ways_per_set >= 2
    /\ \E s \in 0 .. tlb.num_sets - 1 :
           tlb.sets[s].lru_head = tlb.ways_per_set - 1 /\ tlb.sets[s].lru_tail = 0
    /\ \E s \in 0 .. single_cache.num_sets - 1 :
           single_cache.sets[s].lru_head = 1 /\ single_cache.sets[s].lru_tail = 0
    /\ Len(UsedList) = NUM_PHYSICAL_PAGES
    /\ pt.page_faults > NUM_PHYSICAL_PAGES

\* a set whose list ends and links were never written
ListUnused(nodes, head, tail) ==
    /\ head = NULL /\ tail = NULL
    /\ \A i \in DOMAIN nodes : nodes[i].prev = NULL /\ nodes[i].next = NULL

SingleWayListsUnused ==
    /\ single_cache.ways_per_set = 1 =>
           \A s \in 0 .. single_cache.num_sets - 1 :
               ListUnused(single_cache.sets[s].lines, single_cache.sets[s].lru_head,
                          single_cache.sets[s].lru_tail)
    /\ tlb.ways_per_set = 1 =>
           \A s \in 0 .. tlb.num_sets - 1 :
               ListUnused(tlb.sets[s].entries, tlb.sets[s].lru_head, tlb.sets[s].lru_tail)

\* a step in which tlb_lookup ran
LookupStepTaken == tlb_out'.calls # tlb_out.calls /\ tlb_out'.op = "lookup"

\* in a single-way set the outcome of an access is decided by the one way
SingleWayOutcome ==
    /\ (CacheStepTaken /\ single_cache.ways_per_set = 1) =>
           LET l == single_cache.sets[cache_get_index(single_cache, cache_out'.addr)].lines[0]
           IN (cache_out'.result = CACHE_HIT) <=>
                  (l.valid /\ l.tag = cache_get_tag(single_cache, cache_out'.addr))
    /\ (LookupStepTaken /\ tlb.ways_per_set = 1) =>
           LET e == tlb.sets[get_tlb_index(tlb, tlb_out'.vpn)].entries[0]
           IN (tlb_out'.result = TLB_HIT) <=>
                  (e.valid /\ e.vpn = get_tlb_tag(tlb, tlb_out'.vpn))

\* C33: a cache or TLB set with one way never uses the recency list:
\* lru_head, lru_tail and every prev/next link stay null through every
\* access, and an access hits exactly when the set's single way is valid and
\* holds the accessed tag.
C33_SingleWay == []SingleWayListsUnused /\ [][SingleWayOutcome]_vars

\* a direct-mapped cache has hit after two blocks had been installed
C33_Witness ==
    /\ single_cache.ways_per_set = 1
    /\ cache_out.result = CACHE_HIT
    /\ single_cache.misses >= 2
    /\ tlb.ways_per_set = 1

\* the valid entries of the TLB as (set, way) pairs
ValidTlbEntries(t) ==
    {e \in (0 .. t.num_sets - 1) \X (0 .. t.ways_per_set - 1) :
        t.sets[e[1]].entries[e[2]].valid}

\* C34 as stated: every valid TLB entry vpn -> ppn matches a present
\* page-table entry for vpn with the same ppn, whatever the TLB geometry.
C34_Original ==
    \A e \in ValidTlbEntries(tlb) :
        /\ pt.page_table[EntryVpn(tlb, e[1], e[2])].present
        /\ pt.page_table[EntryVpn(tlb, e[1], e[2])].ppn = tlb.sets[e[1]].entries[e[2]].ppn

\* the TLB entry maps a page that is resident in the frame the entry names
Coherent(t, e) ==
    /\ pt.page_table[EntryVpn(t, e[1], e[2])].present
    /\ pt.page_table[EntryVpn(t, e[1], e[2])].ppn = t.sets[e[1]].entries[e[2]].ppn

\* C35 as stated: a valid TLB entry of a resident page is dirty exactly when
\* the page-table entry of its page is dirty (so the dirty value a TLB hit
\* returns is the PTE's), also after a dirty page's translation left the TLB
\* and a later read inserted it again.
C35_Original ==
    \A e \in ValidTlbEntries(tlb) :
        Coherent(tlb, e) =>
            (tlb.sets[e[1]].entries[e[2]].dirty
                = pt.page_table[EntryVpn(tlb, e[1], e[2])].dirty)

\* the blocks held by the valid lines of a cache
AllResident(cache) == UNION {Resident(cache, s) : s \in 0 .. cache.num_sets - 1}

\* C36 as stated: in a two-level hierarchy with equal block sizes and an L2
\* at least as large as L1, every block valid in L1 is also valid in L2 after
\* any sequence of multilevel_cache_access calls.
C36_Original ==
    (/\ multi_cache.levels[0].block_size = multi_cache.levels[1].block_size
     /\ multi_cache.levels[1].size >= multi_cache.levels[0].size)
    => AllResident(multi_cache.levels[0]) \subseteq AllResident(multi_cache.levels[1])

\* C37: the present page-table entries and the frames of the used list
\* correspond one to one: there are as many present entries as used frames,
\* at most NUM_PHYSICAL_PAGES; two present pages never share a frame; and the
\* pte of every used frame is a present entry whose ppn is that frame's id.
C37_Bijection ==
    /\ Cardinality(PresentVpns) = Len(UsedList)
    /\ Len(UsedList) <= NUM_PHYSICAL_PAGES
    /\ \A v1, v2 \in PresentVpns :
           v1 # v2 => pt.page_table[v1].ppn # pt.page_table[v2].ppn
    /\ \A f \in SeqRange(UsedList) :
           /\ pt.pages[f].pte \in PresentVpns
           /\ pt.page_table[pt.pages[f].pte].ppn = pt.pages[f].frame_id
           /\ pt.frame_table[pt.pages[f].frame_id] = f

\* every frame is in use, a page has been evicted and the frames were handed
\* to pages other than the first ones
C37_Witness ==
    /\ Len(UsedList) = NUM_PHYSICAL_PAGES
    /\ pt.page_faults > NUM_PHYSICAL_PAGES
    /\ pt_out.op = "handle_fault" /\ pt_out.victim # NULL
    /\ \E v \in TraceVpns : ~pt.page_table[v].present /\ pt.page_table[v].ppn = pt_out.ppn

\* a and b lie in the same block of block_size bytes
SameBlock(a, b, block_size) == a \div block_size = b \div block_size

\* C38 as stated: for every cache configuration validate_config accepts, two
\* addresses in the same block of block_size bytes decompose to the same set
\* index and tag, and an access to one right after the other is a hit.
C38_Original ==
    [][(/\ CacheStepTaken
        /\ validate_cache_config(config.cache)
        /\ cache_out.addr # NULL
        /\ SameBlock(cache_out.addr, cache_out'.addr, config.cache.block_size))
       => /\ cache_get_index(single_cache, cache_out'.addr)
                = cache_get_index(single_cache, cache_out.addr)
          /\ cache_get_tag(single_cache, cache_out'.addr)
                = cache_get_tag(single_cache, cache_out.addr)
          /\ cache_out'.result = CACHE_HIT]_vars

\* the address put together again from its tag, set index and offset
CacheRecompose(cache, addr) ==
    BitOr(BitOr(Shl32(cache_get_tag(cache, addr), cache.offset_bits + cache.index_bits),
                Shl32(cache_get_index(cache, addr), cache.offset_bits)),
          cache_get_offset(cache, addr))

\* the VPN put together again from its tag and set index
TlbRecompose(t, vpn) == BitOr(Shl32(get_tlb_tag(t, vpn), t.index_bits), get_tlb_index(t, vpn))

\* tlb_print_entries: full_vpn of the entry in way j of set i
full_vpn(t, i, j) == BitOr(Shl32(t.sets[i].entries[j].vpn, t.index_bits), i)

\* the address cache_access was last called with decomposes in range and
\* recomposes to itself
CacheDecomposition ==
    cache_out.addr # NULL =>
        /\ cache_out.index = cache_get_index(single_cache, cache_out.addr)
        /\ cache_out.index < single_cache.num_sets
        /\ CacheRecompose(single_cache, cache_out.addr) = cache_out.addr

\* the VPN the TLB was last called with decomposes in range and recomposes
\* to itself, and the dump of the entry that holds it prints that VPN
TlbDecomposition ==
    tlb_out.vpn # NULL =>
        /\ get_tlb_index(tlb, tlb_out.vpn) < tlb.num_sets
        /\ TlbRecompose(tlb, tlb_out.vpn) = tlb_out.vpn
        /\ TlbEntryOf(tlb, tlb_out.vpn) # NULL =>
               full_vpn(tlb, get_tlb_index(tlb, tlb_out.vpn), TlbEntryOf(tlb, tlb_out.vpn))
                   = tlb_out.vpn

\* C39: for every configuration validate_config accepts, set counts that are
\* not powers of two included, the set index of every accessed address is
\* below num_sets in the cache and in the TLB, tag, index and offset put
\* together give the address (tag and index the VPN) again, and the VPN
\* printed by the verbose dump for an entry is the VPN that was inserted.
C39_Decomposition ==
    (validate_cache_config(config.cache) /\ validate_tlb_config(config.tlb))
    => /\ CacheDecomposition
       /\ TlbDecomposition
       /\ \A e \in ValidTlbEntries(tlb) : full_vpn(tlb, e[1], e[2]) \in TlbVpns

\* a cache of three sets has been accessed at an address with high bits set
C39_Witness ==
    /\ validate_cache_config(config.cache)
    /\ single_cache.num_sets = 3
    /\ cache_out.addr = 1073741840
    /\ cache_out.index = 0
    /\ single_cache.misses >= 2

\* the physical address of the last entry is its frame number above the
\* twelve offset bits of the virtual address, the frame is one of the
\* NUM_PHYSICAL_PAGES frames, and it is the address the cache was accessed at
PaddrOfLastEntry ==
    xl_out.vaddr # NULL =>
        /\ xl_out.ppn \in 0 .. NUM_PHYSICAL_PAGES - 1
        /\ xl_out.paddr = BitOr(Shl32(xl_out.ppn, 12), BitAnd(xl_out.vaddr, 4095))
        /\ xl_out.paddr < NUM_PHYSICAL_PAGES * 4096
        /\ cache_out.addr = xl_out.paddr

\* C40: after every prefix of the trace in single-level mode the TLB and the
\* cache have each been accessed once per entry processed, TLB hits and
\* misses add up to the accesses, page_faults_dirty <= page_faults <=
\* tlb.misses, and the physical address produced is (ppn << 12) | (vaddr &
\* 0xFFF) with ppn below NUM_PHYSICAL_PAGES, so below NUM_PHYSICAL_PAGES * 4096.
C40_Counters ==
    /\ tlb.accesses = Len(log)
    /\ single_cache.accesses = Len(log)
    /\ tlb.hits + tlb.misses = tlb.accesses
    /\ pt.page_faults_dirty <= pt.page_faults
    /\ pt.page_faults <= tlb.misses
    /\ PaddrOfLastEntry

\* three entries have been processed, the last one faulted and evicted a
\* dirty page, and its address has a non-zero page offset
C40_Witness ==
    /\ Len(log) = 3
    /\ pt.page_faults_dirty = 1
    /\ pt.page_faults = 3
    /\ xl_out.faulted
    /\ BitAnd(xl_out.vaddr, 4095) # 0

====
